---- MODULE Spec2Model ----
(***************************************************************************)
(* Evolution Morphology Simulator: the simulation engine as a state         *)
(* machine.  Modules covered: simulation-manager (tick scheduler and        *)
(* environment), organism-manager (population and per-organism update) and  *)
(* evolution-manager (mutation, reproduction, selection).                   *)
(*                                                                          *)
(* Numbers.  The program computes in floating point; the model computes in  *)
(* exact integers with fixed units:                                         *)
(*   trait and gene values      tenths            (0.5  is 5)                *)
(*   gene mutation rates, the global mutation rate, Math.random() results   *)
(*                              hundredths        (0.05 is 5)                *)
(*   lengths and positions      tenths of a pixel (17.5 px is 175)           *)
(*   velocities                 pixels per second                           *)
(*   timestamps                 milliseconds                                *)
(*   deltaTime, age             tenths of a second                          *)
(*   simulation speed           tenths            (1.0 is 10)               *)
(*   energy, resource value     1/10000 energy    (100 is 1000000)          *)
(* Angles are rounded to quarter turns (multiples of PI/2).                 *)
(***************************************************************************)
EXTENDS Integers, Sequences, FiniteSets, TLC

VARIABLES
  isRunning,          \* simulation-manager: let isRunning
  simulationSpeed,    \* simulation-manager: let simulationSpeed (tenths)
  lastTimestamp,      \* simulation-manager: let lastTimestamp (ms)
  animationFrameId,   \* simulation-manager: let animationFrameId (0 is null)
  environment,        \* simulation-manager: let environment
  organisms,          \* organism-manager: let organisms
  mutationRate,       \* evolution-manager: let mutationRate (hundredths)
  generationCount,    \* evolution-manager: let generationCount
  now,                \* the browser clock, performance.now() (ms)
  pendingFrames,      \* the browser's queue of requested animation frames
  envSnap,            \* the value a caller got from getEnvironment
  orgSnap,            \* the value a caller got from getAllOrganisms
  simulationState,    \* app: the coordinator's React state
  controlCallbacks,   \* ui-manager: let controlCallbacks
  genomes,            \* a genome given to mutateGenome and the one returned
  last                \* history: the last operation, its inputs and result

vars == <<isRunning, simulationSpeed, lastTimestamp, animationFrameId,
          environment, organisms, mutationRate, generationCount, now,
          pendingFrames, envSnap, orgSnap, simulationState, controlCallbacks,
          genomes, last>>

\* The state outside the three engine modules and their callers' copies.
outside == <<simulationState, controlCallbacks, genomes>>

\* ------------------------------------------------------------ constants

\* CONSTANTS.CANVAS (pixels)
DEFAULT_WIDTH == 800
DEFAULT_HEIGHT == 600
\* CONSTANTS.SIMULATION.DEFAULT_SPEED, 1.0 (tenths)
DEFAULT_SPEED == 10
\* CONSTANTS.SIMULATION.MIN_SPEED, 0.1, and MAX_SPEED, 5.0 (tenths)
MIN_SPEED == 1
MAX_SPEED == 50
\* CONSTANTS.SIMULATION.DEFAULT_POPULATION_SIZE is 20; the model runs a
\* population scaled down to this size.
DEFAULT_POPULATION_SIZE == 1
\* CONSTANTS.ORGANISM (sizes in pixels, energies in energy units)
MIN_SIZE == 5
MAX_SIZE == 30
DEFAULT_ENERGY == 100
REPRODUCTION_ENERGY_THRESHOLD == 150
\* 0.8 (tenths)
ENERGY_TRANSFER_RATIO == 8
\* 0.1 (tenths)
MOVEMENT_ENERGY_COST == 1
\* CONSTANTS.EVOLUTION: 0.05 and 0.2 (hundredths)
DEFAULT_MUTATION_RATE == 5
MAX_MUTATION_RATE == 20
\* CONSTANTS.RESOURCE: value 25, regeneration rate 0.01 (hundredths)
DEFAULT_VALUE == 25
REGENERATION_RATE == 1
\* CONSTANTS.RESOURCE.MAX_RESOURCES is 50; the model runs an environment
\* scaled down to this capacity.
MAX_RESOURCES == 2

\* ---------------------------------------------------------- model bounds

\* The population never grows beyond this many organisms.
MaxPop == 2
\* Animation frames the browser delivers in one run.
MaxFrames == 2
\* Frame callbacks that may be queued at once.
MaxPending == 2
\* Reproductions a caller asks for before the counter is reset.
MaxGenerations == 2
\* mutateGenome calls made on one line of descent.
MaxMutations == 2
\* updateOrganisms calls made on one population by a caller.
MaxUpdates == 2
\* Time between two animation frames (ms): a coarse frame, as after the page
\* was in the background, so that a few frames cover an organism's life.
FrameGap == 10 * 1000

\* One energy unit in the model's energy scale.
EnergyUnit == 10 * 1000

\* ------------------------------------------------------------- numbers

Min(a, b) == IF a < b THEN a ELSE b
Max(a, b) == IF a > b THEN a ELSE b
Abs(a) == IF a < 0 THEN -a ELSE a
Sign(a) == IF a > 0 THEN 1 ELSE IF a < 0 THEN -1 ELSE 0

\* Integer division rounding toward zero (the model's rounding of a float).
Quot(a, b) == IF a >= 0 THEN a \div b ELSE -((-a) \div b)

\* Math.sqrt, rounded down.
RECURSIVE SqrtFrom(_, _)
SqrtFrom(n, r) == IF (r + 1) * (r + 1) > n THEN r ELSE SqrtFrom(n, r + 1)
Sqrt(n) == SqrtFrom(n, 0)

\* math-utils random(min, max) = Math.random() * (max - min) + min, for a
\* draw r of Math.random() in hundredths; min and max in tenths.
random(r, min, max) == min + (r * (max - min)) \div 100

\* core clamp to [0,1] as written inline: Math.max(0, Math.min(1, v)), tenths.
Clamp01(v) == Max(0, Min(10, v))

\* Squared distance of two points (math-utils distance, before the root).
Dist2(p, q) == (q.x - p.x) * (q.x - p.x) + (q.y - p.y) * (q.y - p.y)

\* ------------------------------------------------------ genome, phenotype

Gene(v, mr) == [value |-> v, mutationRate |-> mr]

\* A freshly initialised appendage, as written in generateRandomGenome and in
\* mutateGenome: type by a coin, length random(0.3, 0.8), position and angle
\* random(0, 1).  d holds the four Math.random() draws.
NewAppendage(d) ==
  [type |-> IF d.type > 50 THEN "fin" ELSE "flagella",
   length |-> Gene(random(d.length, 3, 8), 5),
   position |-> Gene(random(d.position, 0, 10), 2),
   angle |-> Gene(random(d.angle, 0, 10), 4)]

generateDefaultGenome ==
  [bodySize |-> Gene(5, 3), bodyShape |-> Gene(5, 2), metabolism |-> Gene(5, 3),
   sensorRange |-> Gene(5, 2), speed |-> Gene(5, 4), turnRate |-> Gene(5, 3),
   appendages |-> << [type |-> "fin", length |-> Gene(5, 5),
                      position |-> Gene(5, 2), angle |-> Gene(5, 4)] >>]

\* d: the draws of one call: d.trait for the six scalar genes, d.count for the
\* number of appendages, d.app for each appendage.
generateRandomGenome(d) ==
  LET appendageCount == (d.count * 399) \div 10000
  IN [bodySize |-> Gene(random(d.trait, 3, 7), 3),
      bodyShape |-> Gene(random(d.trait, 3, 7), 2),
      metabolism |-> Gene(random(d.trait, 3, 7), 3),
      sensorRange |-> Gene(random(d.trait, 3, 7), 2),
      speed |-> Gene(random(d.trait, 3, 7), 4),
      turnRate |-> Gene(random(d.trait, 3, 7), 3),
      appendages |-> [i \in 1..appendageCount |-> NewAppendage(d.app)]]

generatePhenotype(genome) ==
  [bodySize |-> genome.bodySize.value,
   bodyShape |-> genome.bodyShape.value,
   metabolism |-> genome.metabolism.value,
   sensorRange |-> genome.sensorRange.value,
   speed |-> genome.speed.value,
   turnRate |-> genome.turnRate.value,
   appendages |-> [i \in 1..Len(genome.appendages) |->
                     [type |-> genome.appendages[i].type,
                      length |-> genome.appendages[i].length.value,
                      position |-> genome.appendages[i].position.value,
                      angle |-> genome.appendages[i].angle.value]]]

\* A phenotype field holding null (a malformed organism).
NullPhenotype ==
  [bodySize |-> -1, bodyShape |-> -1, metabolism |-> -1, sensorRange |-> -1,
   speed |-> -1, turnRate |-> -1, appendages |-> << >>]

\* Body radius in tenths of a pixel: MIN_SIZE + value * (MAX_SIZE - MIN_SIZE).
mapPhenotypeToSize(value) == 10 * MIN_SIZE + value * (MAX_SIZE - MIN_SIZE)

\* ---------------------------------------------------------- organisms

\* Object spread: { ...a, ...b }.
Merge(a, b) ==
  [k \in (DOMAIN a) \cup (DOMAIN b) |-> IF k \in DOMAIN b THEN b[k] ELSE a[k]]

\* An object with no own fields: {}.
Empty == [k \in {} |-> 0]

Ids(orgs) == {orgs[i].id : i \in 1..Len(orgs)}

\* core generateId: an id no organism carries.  Ids are only ever compared for
\* equality, so the model takes the least positive integer that is not in use.
generateId(used) == CHOOSE n \in 1..(Cardinality(used) + 1) : n \notin used

\* The organism createOrganism(properties) builds; newId is generateId().
createOrganism(properties, newId) ==
  LET genome == IF "genome" \in DOMAIN properties
                THEN properties.genome ELSE generateDefaultGenome
      phenotype == generatePhenotype(genome)
      defaultOrganism ==
        [id |-> newId, genome |-> genome, phenotype |-> phenotype,
         state |-> [position |-> [x |-> 0, y |-> 0],
                    velocity |-> [x |-> 0, y |-> 0],
                    energy |-> DEFAULT_ENERGY * EnergyUnit,
                    age |-> 0]]
      givenState == IF "state" \in DOMAIN properties
                    THEN properties.state ELSE Empty
  IN Merge(Merge(defaultOrganism, properties),
           [state |-> Merge(defaultOrganism.state, givenState)])

\* createInitialPopulation(count, environmentBounds) on the population orgs:
\* draws[i] holds the Math.random() draws of the i-th organism.
RECURSIVE createInitialPopulation(_, _, _, _)
createInitialPopulation(orgs, count, environmentBounds, draws) ==
  IF count = 0 THEN orgs
  ELSE LET d == draws[1]
           organism == createOrganism(
             [genome |-> generateRandomGenome(d),
              state |-> [position |->
                           [x |-> (d.x * 10 * environmentBounds.width) \div 100,
                            y |-> (d.y * 10 * environmentBounds.height) \div 100],
                         velocity |->
                           [x |-> Quot((d.vx - 50) * 10, 100),
                            y |-> Quot((d.vy - 50) * 10, 100)]]],
             generateId(Ids(orgs)))
       IN createInitialPopulation(Append(orgs, organism), count - 1,
                                  environmentBounds, Tail(draws))

\* getAllOrganisms and getOrganismById hand out deepClone(...), which is
\* JSON.parse(JSON.stringify(obj)): a structure of new objects holding the
\* same numbers, strings and booleans.  alias says whether the value handed
\* out is the internal object itself (TRUE) or a structure of its own (FALSE).
\* A faulty deepClone that hands back the object it was given.
deepCloneShared(obj) == [alias |-> TRUE, val |-> << >>]

deepClone(obj) == [alias |-> FALSE, val |-> obj]

\* A faulty getAllOrganisms that returns the internal array itself.
getAllOrganismsShared(orgs) == [alias |-> TRUE, val |-> << >>]

getAllOrganisms(orgs) == deepClone(orgs)

\* What a handed-out value shows when read: the internal object if it is an
\* alias of it, its own structure otherwise.
View(ref, internal) == IF ref.alias THEN internal ELSE ref.val

\* Index of the first organism with this id, 0 if there is none
\* (organisms.find).
Find(orgs, organismId) ==
  IF \E i \in 1..Len(orgs) : orgs[i].id = organismId
  THEN CHOOSE i \in 1..Len(orgs) :
         /\ orgs[i].id = organismId
         /\ \A j \in 1..(i - 1) : orgs[j].id # organismId
  ELSE 0

\* getOrganismById(organismId): a deep clone of the organism, null (the
\* empty sequence here) if there is none.
getOrganismById(orgs, organismId) ==
  IF Find(orgs, organismId) = 0 THEN deepClone(<< >>)
  ELSE deepClone(orgs[Find(orgs, organismId)])

removeOrganism(orgs, organismId) ==
  LET Other(o) == o.id # organismId IN SelectSeq(orgs, Other)

IsDead(o) == "dead" \in DOMAIN o.state /\ o.state.dead

\* ------------------------------------------------- per-organism update

\* A step of the per-organism update reads a field of organism.phenotype and
\* raises a TypeError when phenotype is null.
Throws(o) == o.phenotype = NullPhenotype

\* A faulty decreaseEnergy without the Math.max(0, ...) floor.
decreaseEnergyUnfloored(o, deltaTime) ==
  LET speed == Sqrt(o.state.velocity.x * o.state.velocity.x
                    + o.state.velocity.y * o.state.velocity.y)
  IN [o EXCEPT !.state.energy =
        o.state.energy
        - ((o.phenotype.metabolism * MOVEMENT_ENERGY_COST * deltaTime
              * EnergyUnit) \div 1000
           + (speed * MOVEMENT_ENERGY_COST * deltaTime * EnergyUnit) \div 100
           + (o.phenotype.bodySize * deltaTime * EnergyUnit) \div 10000)]

decreaseEnergy(o, deltaTime) ==
  LET baseConsumption ==
        (o.phenotype.metabolism * MOVEMENT_ENERGY_COST * deltaTime * EnergyUnit)
          \div 1000
      speed == Sqrt(o.state.velocity.x * o.state.velocity.x
                    + o.state.velocity.y * o.state.velocity.y)
      movementConsumption ==
        (speed * MOVEMENT_ENERGY_COST * deltaTime * EnergyUnit) \div 100
      sizeConsumption == (o.phenotype.bodySize * deltaTime * EnergyUnit) \div 10000
      energy == o.state.energy
                - (baseConsumption + movementConsumption + sizeConsumption)
  IN [o EXCEPT !.state.energy = Max(0, energy)]

\* A faulty findNearestResource that also accepts a resource at exactly the
\* sensor range.
findNearestResourceInclusive(o, env) ==
  LET sensorRange == o.phenotype.sensorRange * 200
      InRange(i) == Dist2(o.state.position, env.resources[i].position)
                      <= sensorRange * sensorRange
      Cand == {i \in 1..Len(env.resources) : InRange(i)}
  IN IF Cand = {} THEN 0
     ELSE CHOOSE i \in Cand :
            \A j \in Cand :
              LET di == Dist2(o.state.position, env.resources[i].position)
                  dj == Dist2(o.state.position, env.resources[j].position)
              IN di < dj \/ (di = dj /\ i <= j)

\* Index of the nearest resource within sensor range, 0 if none; the first
\* found wins a tie ("dist < nearestDistance").
findNearestResource(o, env) ==
  LET sensorRange == o.phenotype.sensorRange * 200
      InRange(i) == Dist2(o.state.position, env.resources[i].position)
                      < sensorRange * sensorRange
      Cand == {i \in 1..Len(env.resources) : InRange(i)}
  IN IF Cand = {} THEN 0
     ELSE CHOOSE i \in Cand :
            \A j \in Cand :
              LET di == Dist2(o.state.position, env.resources[i].position)
                  dj == Dist2(o.state.position, env.resources[j].position)
              IN di < dj \/ (di = dj /\ i <= j)

\* Math.atan2(v.y, v.x), rounded to a quarter turn in -1..2.
Heading(v) ==
  IF Abs(v.x) >= Abs(v.y)
  THEN (IF v.x >= 0 THEN 0 ELSE 2)
  ELSE (IF v.y > 0 THEN 1 ELSE -1)

\* (Math.cos, Math.sin) of a quarter-turn angle.
Dir(a) ==
  LET k == a % 4
  IN IF k = 0 THEN [x |-> 1, y |-> 0]
     ELSE IF k = 1 THEN [x |-> 0, y |-> 1]
     ELSE IF k = 2 THEN [x |-> -1, y |-> 0]
     ELSE [x |-> 0, y |-> -1]

\* An angle in radians * 10000, in whole quarter turns (PI/2 = 1.5708).
QuarterTurns(rad10000) == Quot(rad10000, 15708)

\* maxSpeed in pixels per second, turnRate in tenths of a radian per second.
moveTowardsTarget(o, targetPosition, maxSpeed, turnRate, deltaTime) ==
  LET targetAngle == Heading([x |-> targetPosition.x - o.state.position.x,
                              y |-> targetPosition.y - o.state.position.y])
      currentAngle == Heading(o.state.velocity)
      raw == targetAngle - currentAngle
      angleDiff == IF raw > 2 THEN raw - 4 ELSE IF raw < -2 THEN raw + 4 ELSE raw
      maxTurn == QuarterTurns(turnRate * deltaTime * 100)
      newAngle == currentAngle + Sign(angleDiff) * Min(Abs(angleDiff), maxTurn)
  IN [o EXCEPT !.state.velocity = [x |-> Dir(newAngle).x * maxSpeed,
                                   y |-> Dir(newAngle).y * maxSpeed]]

\* d.turn and d.speed are the two Math.random() draws.
randomMovement(o, maxSpeed, turnRate, deltaTime, d) ==
  LET currentAngle == Heading(o.state.velocity)
      randomTurn == QuarterTurns((d.turn - 50) * turnRate * deltaTime)
      newAngle == currentAngle + randomTurn
      speed == (maxSpeed * (80 + (d.speed * 20) \div 100)) \div 100
  IN [o EXCEPT !.state.velocity = [x |-> Dir(newAngle).x * speed,
                                   y |-> Dir(newAngle).y * speed]]

constrainToEnvironment(o, env) ==
  LET width == 10 * env.boundaries.width
      height == 10 * env.boundaries.height
      radius == mapPhenotypeToSize(o.phenotype.bodySize)
      p == o.state.position
      v == o.state.velocity
      px == IF p.x < radius THEN radius
            ELSE IF p.x > width - radius THEN width - radius ELSE p.x
      vx == IF p.x < radius THEN Abs(v.x)
            ELSE IF p.x > width - radius THEN -Abs(v.x) ELSE v.x
      py == IF p.y < radius THEN radius
            ELSE IF p.y > height - radius THEN height - radius ELSE p.y
      vy == IF p.y < radius THEN Abs(v.y)
            ELSE IF p.y > height - radius THEN -Abs(v.y) ELSE v.y
  IN [o EXCEPT !.state.position = [x |-> px, y |-> py],
               !.state.velocity = [x |-> vx, y |-> vy]]

moveOrganism(o, deltaTime, env, d) ==
  LET maxSpeed == o.phenotype.speed * 5
      turnRate == o.phenotype.turnRate * 2
      Steered(nearestResource) ==
        IF nearestResource # 0
        THEN moveTowardsTarget(o, env.resources[nearestResource].position,
                               maxSpeed, turnRate, deltaTime)
        ELSE randomMovement(o, maxSpeed, turnRate, deltaTime, d)
      Moved(steered) ==
        [steered EXCEPT
           !.state.position =
             [x |-> steered.state.position.x
                    + steered.state.velocity.x * deltaTime,
              y |-> steered.state.position.y
                    + steered.state.velocity.y * deltaTime]]
  IN constrainToEnvironment(Moved(Steered(findNearestResource(o, env))), env)

\* The loop of findAndConsumeResources from index i down to 1; the result is
\* the organism and the resources left.
RECURSIVE consumeFrom(_, _, _)
\* A faulty loop that also consumes a resource at exactly the body radius.
consumeFromInclusive(o, resources, i) ==
  IF i = 0 THEN [organism |-> o, resources |-> resources]
  ELSE LET resource == resources[i]
           consumptionRadius == mapPhenotypeToSize(o.phenotype.bodySize)
       IN IF Dist2(o.state.position, resource.position)
               <= consumptionRadius * consumptionRadius
          THEN consumeFrom(
                 [o EXCEPT !.state.energy = o.state.energy + resource.value],
                 SubSeq(resources, 1, i - 1)
                   \o SubSeq(resources, i + 1, Len(resources)),
                 i - 1)
          ELSE consumeFrom(o, resources, i - 1)

consumeFrom(o, resources, i) ==
  IF i = 0 THEN [organism |-> o, resources |-> resources]
  ELSE LET resource == resources[i]
           consumptionRadius == mapPhenotypeToSize(o.phenotype.bodySize)
       IN IF Dist2(o.state.position, resource.position)
               < consumptionRadius * consumptionRadius
          THEN consumeFrom(
                 [o EXCEPT !.state.energy = o.state.energy + resource.value],
                 SubSeq(resources, 1, i - 1)
                   \o SubSeq(resources, i + 1, Len(resources)),
                 i - 1)
          ELSE consumeFrom(o, resources, i - 1)

findAndConsumeResources(o, env) == consumeFrom(o, env.resources, Len(env.resources))

\* updateOrganisms, the forEach from the i-th organism on.  An exception
\* leaves the loop at once: the organisms after i are not touched and the
\* filter after the loop does not run.
RECURSIVE updateFrom(_, _, _, _, _)
updateFrom(orgs, env, i, deltaTime, d) ==
  IF i > Len(orgs)
  THEN [organisms |-> orgs, environment |-> env, threw |-> FALSE,
        skipped |-> 0]
  ELSE LET Checked(o) == IF o.state.energy <= 0
                          THEN [o EXCEPT !.state = Merge(o.state, [dead |-> TRUE])]
                          ELSE o
           Rest(fed) == updateFrom([orgs EXCEPT ![i] = Checked(fed.organism)],
                                   [env EXCEPT !.resources = fed.resources],
                                   i + 1, deltaTime, d)
           Step(aged) ==
             IF Throws(aged)
             THEN [organisms |-> [orgs EXCEPT ![i] = aged], environment |-> env,
                   threw |-> TRUE, skipped |-> Len(orgs) - i]
             ELSE Rest(findAndConsumeResources(
                         moveOrganism(decreaseEnergy(aged, deltaTime),
                                      deltaTime, env, d),
                         env))
       IN Step([orgs[i] EXCEPT !.state.age = orgs[i].state.age + deltaTime])

updateOrganisms(orgs, env, deltaTime, d) ==
  LET Alive(o) == ~IsDead(o)
      Filtered(r) == IF r.threw THEN r
                     ELSE [r EXCEPT !.organisms = SelectSeq(r.organisms, Alive)]
  IN Filtered(updateFrom(orgs, env, 1, deltaTime, d))

\* ---------------------------------------------------------- evolution

\* gaussian(0, sigma) for a standard normal draw z; sigma in hundredths, the
\* result in tenths.
gaussian(z, sigma) == Quot(z * sigma, 10)

\* A faulty gene mutation without the Math.max(0, Math.min(1, ...)) clamp.
MutateGeneUnclamped(g, r, m, z, magnitude) ==
  IF r * 100 < g.mutationRate * m
  THEN [g EXCEPT !.value = g.value + gaussian(z, magnitude)]
  ELSE g

\* A faulty gene mutation that fires on Math.random() <= rate.
MutateGeneInclusive(g, r, m, z, magnitude) ==
  IF r * 100 <= g.mutationRate * m
  THEN [g EXCEPT !.value = Clamp01(g.value + gaussian(z, magnitude))]
  ELSE g

\* One gene under the rule "if (Math.random() < gene.mutationRate *
\* mutationRate) value = clamp(value + gaussian(0, magnitude))".
MutateGene(g, r, m, z, magnitude) ==
  IF r * 100 < g.mutationRate * m
  THEN [g EXCEPT !.value = Clamp01(g.value + gaussian(z, magnitude))]
  ELSE g

\* One appendage inside mutatedGenome.appendages.forEach.
MutateAppendage(a, m, isJumpMutation, d) ==
  LET mutationMagnitude == IF isJumpMutation THEN 25 ELSE 10
      Flipped(genes) ==
        IF d.flip * 10 < m * (IF isJumpMutation THEN 3 ELSE 1)
        THEN [genes EXCEPT
                !.type = IF genes.type = "fin" THEN "flagella" ELSE "fin"]
        ELSE genes
      Special(flipped) ==
        IF isJumpMutation /\ d.special * 10 < m * 2
        THEN [flipped EXCEPT
                !.length.value = Clamp01(flipped.length.value + gaussian(d.z, 40))]
        ELSE flipped
  IN Special(Flipped(
       [a EXCEPT
          !.length = MutateGene(a.length, d.gene, m, d.z, mutationMagnitude),
          !.position = MutateGene(a.position, d.gene, m, d.z, mutationMagnitude),
          !.angle = MutateGene(a.angle, d.gene, m, d.z, mutationMagnitude)]))

\* A faulty mutateGenome that adds an appendage without looking at the number
\* of appendages present.
mutateGenomeUncapped(genome, m, d) ==
  LET isJumpMutation == d.jump * 100 < 5 * m
      mutationMagnitude == IF isJumpMutation THEN 30 ELSE 10
      Scalar(g) == MutateGene(g, d.gene, m, d.z, mutationMagnitude)
      appendageAddChance == IF isJumpMutation THEN 4 ELSE 2
      Added(apps) == IF d.add * 10 < m * appendageAddChance
                     THEN Append(apps, NewAppendage(d.app)) ELSE apps
      appendageRemoveChance == IF isJumpMutation THEN 15 ELSE 10
      Index(apps) == (d.removeIndex * Len(apps)) \div 100
      Removed(apps) ==
        IF Len(apps) > 0 /\ d.remove * 100 < m * appendageRemoveChance
        THEN SubSeq(apps, 1, Index(apps))
               \o SubSeq(apps, Index(apps) + 2, Len(apps))
        ELSE apps
  IN [bodySize |-> Scalar(genome.bodySize),
      bodyShape |-> Scalar(genome.bodyShape),
      metabolism |-> Scalar(genome.metabolism),
      sensorRange |-> Scalar(genome.sensorRange),
      speed |-> Scalar(genome.speed),
      turnRate |-> Scalar(genome.turnRate),
      appendages |->
        Removed(Added([i \in 1..Len(genome.appendages) |->
                         MutateAppendage(genome.appendages[i], m,
                                         isJumpMutation, d)]))]

\* mutateGenome(genome) at the global rate m; d holds the draws of the call
\* (one Math.random() draw per kind of decision, one gaussian draw).
mutateGenome(genome, m, d) ==
  LET isJumpMutation == d.jump * 100 < 5 * m
      mutationMagnitude == IF isJumpMutation THEN 30 ELSE 10
      Scalar(g) == MutateGene(g, d.gene, m, d.z, mutationMagnitude)
      appendageAddChance == IF isJumpMutation THEN 4 ELSE 2
      Added(apps) == IF Len(apps) < 3 /\ d.add * 10 < m * appendageAddChance
                     THEN Append(apps, NewAppendage(d.app)) ELSE apps
      appendageRemoveChance == IF isJumpMutation THEN 15 ELSE 10
      Index(apps) == (d.removeIndex * Len(apps)) \div 100
      Removed(apps) ==
        IF Len(apps) > 0 /\ d.remove * 100 < m * appendageRemoveChance
        THEN SubSeq(apps, 1, Index(apps))
               \o SubSeq(apps, Index(apps) + 2, Len(apps))
        ELSE apps
  IN [bodySize |-> Scalar(genome.bodySize),
      bodyShape |-> Scalar(genome.bodyShape),
      metabolism |-> Scalar(genome.metabolism),
      sensorRange |-> Scalar(genome.sensorRange),
      speed |-> Scalar(genome.speed),
      turnRate |-> Scalar(genome.turnRate),
      appendages |->
        Removed(Added([i \in 1..Len(genome.appendages) |->
                         MutateAppendage(genome.appendages[i], m,
                                         isJumpMutation, d)]))]

\* mutateGenome(genome) as a call on objects: line 148 clones the argument,
\* every write of lines 154-220 goes to the clone and the clone is returned.
\* input is the argument as it is after the call, output the value returned.
mutateGenomeCall(genome, m, d) ==
  LET Result(clone, mutated) ==
        [input |-> IF clone.alias THEN mutated ELSE genome,
         output |-> [alias |-> clone.alias,
                     val |-> IF clone.alias THEN << >> ELSE mutated]]
      Worked(clone) == Result(clone, mutateGenome(View(clone, genome), m, d))
  IN Worked(deepClone(genome))

\* randomOffset() = Math.random() * 20 - 10, in tenths of a pixel.
randomOffset(r) == 2 * r - 100

\* A faulty reproduction that gives the offspring the share of the energy
\* the parent is meant to keep.
reproduceFromKeeping(orgs, gen, m, parent, parentId, d) ==
  LET positionOffset == 200
      Offspring ==
        createOrganism(
          [genome |-> mutateGenome(parent.genome, m, d.mutation),
           state |-> [position |->
                        [x |-> parent.state.position.x
                               + positionOffset * Dir((d.angleX * 4) \div 100).x
                               + randomOffset(d.offsetX),
                         y |-> parent.state.position.y
                               + positionOffset * Dir((d.angleY * 4) \div 100).y
                               + randomOffset(d.offsetY)],
                      velocity |->
                        [x |-> Quot(parent.state.velocity.x * 8, 10)
                               + Quot(randomOffset(d.jitterX) * 2, 100),
                         y |-> Quot(parent.state.velocity.y * 8, 10)
                               + Quot(randomOffset(d.jitterY) * 2, 100)],
                      energy |->
                        (parent.state.energy * (10 - ENERGY_TRANSFER_RATIO))
                          \div 10]],
          generateId(Ids(orgs)))
      UpdatedParent(withOffspring) ==
        createOrganism(
          Merge(parent,
                [state |->
                   Merge(parent.state,
                         [energy |->
                            (parent.state.energy * (10 - ENERGY_TRANSFER_RATIO))
                              \div 10])]),
          generateId(Ids(withOffspring)))
      Replaced(withOffspring) ==
        removeOrganism(Append(withOffspring, UpdatedParent(withOffspring)),
                       parentId)
      Born(offspring) ==
        [organisms |-> Replaced(Append(orgs, offspring)),
         generationCount |-> gen + 1,
         ret |-> offspring.id]
  IN Born(Offspring)

\* reproduceOrganism once the parent has passed its two checks: the offspring
\* is created, the parent is created again with its reduced energy,
\* removeOrganism(parentId) runs and the generation is counted.  ret is the
\* id returned.
reproduceFrom(orgs, gen, m, parent, parentId, d) ==
  LET positionOffset == 200
      Offspring ==
        createOrganism(
          [genome |-> mutateGenome(parent.genome, m, d.mutation),
           state |-> [position |->
                        [x |-> parent.state.position.x
                               + positionOffset * Dir((d.angleX * 4) \div 100).x
                               + randomOffset(d.offsetX),
                         y |-> parent.state.position.y
                               + positionOffset * Dir((d.angleY * 4) \div 100).y
                               + randomOffset(d.offsetY)],
                      velocity |->
                        [x |-> Quot(parent.state.velocity.x * 8, 10)
                               + Quot(randomOffset(d.jitterX) * 2, 100),
                         y |-> Quot(parent.state.velocity.y * 8, 10)
                               + Quot(randomOffset(d.jitterY) * 2, 100)],
                      energy |->
                        (parent.state.energy * ENERGY_TRANSFER_RATIO) \div 10]],
          generateId(Ids(orgs)))
      UpdatedParent(withOffspring) ==
        createOrganism(
          Merge(parent,
                [state |->
                   Merge(parent.state,
                         [energy |->
                            (parent.state.energy * (10 - ENERGY_TRANSFER_RATIO))
                              \div 10])]),
          generateId(Ids(withOffspring)))
      Replaced(withOffspring) ==
        removeOrganism(Append(withOffspring, UpdatedParent(withOffspring)),
                       parentId)
      Born(offspring) ==
        [organisms |-> Replaced(Append(orgs, offspring)),
         generationCount |-> gen + 1,
         ret |-> offspring.id]
  IN Born(Offspring)

\* A faulty reproduceOrganism that does not look at the parent's energy.
reproduceOrganismUnchecked(orgs, gen, m, parentId, d) ==
  IF Find(orgs, parentId) = 0
  THEN [organisms |-> orgs, generationCount |-> gen, ret |-> 0]
  ELSE reproduceFrom(orgs, gen, m,
                     View(getOrganismById(orgs, parentId),
                          orgs[Find(orgs, parentId)]),
                     parentId, d)

\* A faulty reproduceOrganism that counts a generation for every call made
\* for an organism of the population, also when it returns null.
reproduceOrganismCounting(orgs, gen, m, parentId, d) ==
  LET at == Find(orgs, parentId)
      Of(parent) ==
        IF parent.state.energy < REPRODUCTION_ENERGY_THRESHOLD * EnergyUnit
        THEN [organisms |-> orgs, generationCount |-> gen + 1, ret |-> 0]
        ELSE reproduceFrom(orgs, gen, m, parent, parentId, d)
  IN IF at = 0
     THEN [organisms |-> orgs, generationCount |-> gen, ret |-> 0]
     ELSE Of(View(getOrganismById(orgs, parentId), orgs[at]))

\* reproduceOrganism(parentId) on the population orgs and the generation
\* counter gen.  ret is the id returned, 0 for null.
reproduceOrganism(orgs, gen, m, parentId, d) ==
  LET at == Find(orgs, parentId)
      Of(parent) ==
        IF parent.state.energy < REPRODUCTION_ENERGY_THRESHOLD * EnergyUnit
        THEN [organisms |-> orgs, generationCount |-> gen, ret |-> 0]
        ELSE reproduceFrom(orgs, gen, m, parent, parentId, d)
  IN IF at = 0
     THEN [organisms |-> orgs, generationCount |-> gen, ret |-> 0]
     ELSE Of(View(getOrganismById(orgs, parentId), orgs[at]))

\* calculateOrganismFitness reads organism.phenotype.metabolism and raises a
\* TypeError when phenotype is null; its score is not used by applySelection.
FitnessThrows(o) == o.phenotype = NullPhenotype

\* calculateAppendageEfficiency(organism), in thousandths: the neutral 0.5
\* without phenotype or appendages, else the average efficiency of the
\* appendages times the diminishing factor.
calculateAppendageEfficiency(o) ==
  LET appendages == o.phenotype.appendages
      Efficiency(app) ==
        IF app.type = "fin"
        THEN 500 + (app.length * o.phenotype.speed * 25) \div 10
        ELSE IF app.type = "flagella"
        THEN 700 + (app.length * o.phenotype.turnRate * 15) \div 10
        ELSE 0
      diminishingFactor == Max(0, 10 - Max(0, Len(appendages) - 2) * 2)
      Mean(total) == ((total \div Len(appendages)) * diminishingFactor) \div 10
      First == IF Len(appendages) >= 1 THEN Efficiency(appendages[1]) ELSE 0
      Second == IF Len(appendages) >= 2 THEN Efficiency(appendages[2]) ELSE 0
      Third == IF Len(appendages) >= 3 THEN Efficiency(appendages[3]) ELSE 0
  IN IF o.phenotype = NullPhenotype \/ Len(appendages) = 0 THEN 500
     ELSE Mean(First + Second + Third)

\* calculateEnvironmentFit(organism, environment), in thousandths.
calculateEnvironmentFit(o, env) ==
  LET count == Len(env.resources)
      maxResources == env.parameters.maxResources
      balanceFactor == 10 - Abs(o.phenotype.speed - (10 - o.phenotype.metabolism))
      environmentFit ==
        IF count * 10 > 7 * maxResources
        THEN 300 + o.phenotype.speed * 40 + o.phenotype.metabolism * 30
        ELSE IF count * 10 < 3 * maxResources
        THEN 300 + (10 - o.phenotype.metabolism) * 40
                 + o.phenotype.sensorRange * 30
        ELSE 400 + balanceFactor * 60
  IN Max(0, Min(1000, environmentFit))

\* calculateOrganismFitness(organism, environment): threw says whether the
\* call raised a TypeError (line 270 reads organism.phenotype.metabolism
\* before any component looks at the phenotype field itself); appendageScore
\* and fitness are in thousandths, -1 when the call did not return.
calculateOrganismFitness(o, env, hasEnvironment) ==
  LET energyScore == (o.state.energy * 1000) \div (REPRODUCTION_ENERGY_THRESHOLD
                                                     * EnergyUnit)
      metabolismScore == 1000 - o.phenotype.metabolism * 100
      sensorScore == o.phenotype.sensorRange * 100
      movementScore == o.phenotype.speed * (10 - o.phenotype.metabolism) * 10
      ageScore == Min(1000, o.state.age)
      environmentScore == IF hasEnvironment THEN calculateEnvironmentFit(o, env)
                          ELSE 500
      Scored(appendageScore) ==
        [threw |-> FALSE, appendageScore |-> appendageScore,
         fitness |-> (energyScore * 35 + metabolismScore * 15 + sensorScore * 10
                      + movementScore * 15 + ageScore * 10 + appendageScore * 5
                      + environmentScore * 10) \div 100]
  IN IF FitnessThrows(o)
     THEN [threw |-> TRUE, appendageScore |-> -1, fitness |-> -1]
     ELSE Scored(calculateAppendageEfficiency(o))

\* applySelection(organisms, environment): the forEach over the snapshot snap
\* from its i-th element on.  reproduced is the number of reproduceOrganism
\* calls of the pass that returned an id.
RECURSIVE selectFrom(_, _, _, _, _, _)
selectFrom(snap, i, orgs, gen, m, d) ==
  IF i > Len(snap)
  THEN [organisms |-> orgs, generationCount |-> gen, threw |-> FALSE,
        reproduced |-> 0]
  ELSE IF FitnessThrows(snap[i])
  THEN [organisms |-> orgs, generationCount |-> gen, threw |-> TRUE,
        reproduced |-> 0]
  ELSE LET hasEnoughEnergy ==
             snap[i].state.energy >= REPRODUCTION_ENERGY_THRESHOLD * EnergyUnit
           Counted(r, rest) ==
             IF r.ret # 0 THEN [rest EXCEPT !.reproduced = @ + 1] ELSE rest
           After(r) ==
             Counted(r, selectFrom(snap, i + 1, r.organisms, r.generationCount,
                                   m, d))
       IN IF hasEnoughEnergy
          THEN After(reproduceOrganism(orgs, gen, m, snap[i].id, d))
          ELSE selectFrom(snap, i + 1, orgs, gen, m, d)

applySelection(snap, orgs, gen, m, d) == selectFrom(snap, 1, orgs, gen, m, d)

\* --------------------------------------------------------- environment

\* generateResources: floor(maxResources / 2) resources at random places;
\* draws[i] holds the two Math.random() draws of the i-th resource.
generateResources(env, draws) ==
  LET resourceCount == env.parameters.maxResources \div 2
  IN [env EXCEPT !.resources =
        [i \in 1..resourceCount |->
           [type |-> "food",
            position |-> [x |-> (draws[i].x * 10 * env.boundaries.width) \div 100,
                          y |-> (draws[i].y * 10 * env.boundaries.height) \div 100],
            value |-> DEFAULT_VALUE * EnergyUnit]]]

\* A faulty updateResources that regenerates without looking at the number
\* of resources present.
updateResourcesUncapped(env, deltaTime, d) ==
  IF d.regen * 10 < env.parameters.resourceRegenerationRate * deltaTime
  THEN [env EXCEPT !.resources =
          Append(env.resources,
                 [type |-> "food",
                  position |-> [x |-> (d.x * 10 * env.boundaries.width) \div 100,
                                y |-> (d.y * 10 * env.boundaries.height) \div 100],
                  value |-> DEFAULT_VALUE * EnergyUnit])]
  ELSE env

\* A faulty updateResources that adds every missing resource when the trial
\* succeeds.
updateResourcesFilling(env, deltaTime, d) ==
  LET resourcesNeeded == env.parameters.maxResources - Len(env.resources)
      resourcesToAdd ==
        IF d.regen * 10 < env.parameters.resourceRegenerationRate * deltaTime
        THEN resourcesNeeded ELSE 0
  IN IF Len(env.resources) < env.parameters.maxResources
     THEN [env EXCEPT !.resources =
             env.resources \o
             [i \in 1..resourcesToAdd |->
                [type |-> "food",
                 position |-> [x |-> (d.x * 10 * env.boundaries.width) \div 100,
                               y |-> (d.y * 10 * env.boundaries.height) \div 100],
                 value |-> DEFAULT_VALUE * EnergyUnit]]]
     ELSE env

\* updateResources(deltaTime): d.regen is the draw compared with
\* resourceRegenerationRate * deltaTime, d.x and d.y place the new resource.
updateResources(env, deltaTime, d) ==
  LET resourcesNeeded == env.parameters.maxResources - Len(env.resources)
      resourcesToAdd ==
        Min(resourcesNeeded,
            IF d.regen * 10 < env.parameters.resourceRegenerationRate * deltaTime
            THEN 1 ELSE 0)
  IN IF Len(env.resources) < env.parameters.maxResources
     THEN [env EXCEPT !.resources =
             env.resources \o
             [i \in 1..resourcesToAdd |->
                [type |-> "food",
                 position |-> [x |-> (d.x * 10 * env.boundaries.width) \div 100,
                               y |-> (d.y * 10 * env.boundaries.height) \div 100],
                 value |-> DEFAULT_VALUE * EnergyUnit]]]
     ELSE env

\* getEnvironment returns { ...environment }: a new top-level object whose
\* three fields hold the very objects the internal environment holds.
getEnvironment(env) == [k \in DOMAIN env |-> [alias |-> TRUE, val |-> << >>]]

\* The caller holds no value yet.
NoSnapshot == [kind |-> "none", alias |-> FALSE, val |-> << >>]

\* An internal field is bound to a new object (environment.resources = [],
\* environment.boundaries = {...}): a snapshot holding the old object keeps it.
Detach(snap, field, old) ==
  IF field \in DOMAIN snap /\ snap[field].alias
  THEN [snap EXCEPT ![field] = [alias |-> FALSE, val |-> old]]
  ELSE snap

\* ------------------------------------------------------------ scheduler

\* requestAnimationFrame: the id of the new request.  Ids are only compared
\* for equality (cancelAnimationFrame), so the model takes the least positive
\* integer that is neither queued nor held in animationFrameId.
requestAnimationFrame(pending, held) ==
  LET used == {pending[i] : i \in 1..Len(pending)} \cup {held}
  IN CHOOSE n \in 1..(Cardinality(used) + 1) : n \notin used

cancelAnimationFrame(pending, id) ==
  LET Other(f) == f # id IN SelectSeq(pending, Other)

\* The program state the handlers work on, as one record.
Program ==
  [isRunning |-> isRunning, simulationSpeed |-> simulationSpeed,
   lastTimestamp |-> lastTimestamp, animationFrameId |-> animationFrameId,
   environment |-> environment, organisms |-> organisms,
   generationCount |-> generationCount, pendingFrames |-> pendingFrames,
   ran |-> 0, raised |-> 0, skipped |-> 0, deltaTimes |-> << >>,
   steps |-> << >>, qualified |-> 0, reproduced |-> 0]

\* The steps of a tick that have run to their end are kept, tick by tick, in
\* steps: this step of the latest tick has ended.
Logged(P, step) == [P EXCEPT !.steps[Len(P.steps)] = Append(@, step)]

\* The organisms of orgs that have the energy to reproduce.
Qualified(orgs) ==
  {i \in 1..Len(orgs) :
     orgs[i].state.energy >= REPRODUCTION_ENERGY_THRESHOLD * EnergyUnit}

\* updateSimulation(deltaTime): resources, then organisms, then selection.
\* An exception leaves it where it was raised.
updateSimulation(P, m, deltaTime, d) ==
  LET Resources(Q) ==
        Logged([Q EXCEPT !.environment =
                  updateResources(Q.environment, deltaTime, d)],
               "updateResources")
      OrganismsDone(Q, u) ==
        IF u.threw
        THEN [Q EXCEPT !.environment = u.environment,
                       !.organisms = u.organisms,
                       !.raised = Q.raised + 1,
                       !.skipped = Q.skipped + u.skipped,
                       !.qualified =
                         Q.qualified + Cardinality(Qualified(u.organisms))]
        ELSE Logged([Q EXCEPT !.environment = u.environment,
                              !.organisms = u.organisms,
                              !.qualified =
                                Q.qualified + Cardinality(Qualified(u.organisms))],
                    "updateOrganisms")
      Organisms(Q) ==
        OrganismsDone(Q, updateOrganisms(Q.organisms, Q.environment,
                                         deltaTime, d))
      SelectionDone(Q, s) ==
        IF s.threw
        THEN [Q EXCEPT !.organisms = s.organisms,
                       !.generationCount = s.generationCount,
                       !.reproduced = Q.reproduced + s.reproduced,
                       !.raised = Q.raised + 1]
        ELSE Logged([Q EXCEPT !.organisms = s.organisms,
                              !.generationCount = s.generationCount,
                              !.reproduced = Q.reproduced + s.reproduced],
                    "applySelection")
      Selection(Q) ==
        IF Q.raised > P.raised THEN Q
        ELSE SelectionDone(Q, applySelection(
                                View(getAllOrganisms(Q.organisms), Q.organisms),
                                Q.organisms, Q.generationCount, m, d.repro))
  IN Selection(Organisms(Resources(P)))

\* A faulty simulationLoop that requests the next frame before it updates
\* the simulation.
simulationLoopRequestingFirst(P, m, timestamp, d) ==
  IF ~P.isRunning THEN P
  ELSE LET deltaTime ==
             ((timestamp - P.lastTimestamp) * P.simulationSpeed) \div 1000
           Requested(Q, id) ==
             [Q EXCEPT !.animationFrameId = id,
                       !.pendingFrames = Append(Q.pendingFrames, id)]
           Notified(Q) ==
             Logged(Logged(Q, "refreshCanvas"), "updateStatistics")
           Continued(Q) ==
             Logged(Requested(Q, requestAnimationFrame(Q.pendingFrames,
                                                       Q.animationFrameId)),
                    "requestAnimationFrame")
           Rest(Q) ==
             IF Q.raised > P.raised THEN Q ELSE Notified(Q)
       IN Rest(updateSimulation(
                 Continued(
                   [P EXCEPT !.lastTimestamp = timestamp, !.ran = P.ran + 1,
                             !.deltaTimes = Append(P.deltaTimes, deltaTime),
                             !.steps = Append(P.steps, << >>)]),
                 m, deltaTime, d))

\* simulationLoop(timestamp), the frame callback.  refreshCanvas and
\* updateStatistics only read snapshots.  After an exception the rest of the
\* callback, the next requestAnimationFrame included, does not run.
simulationLoop(P, m, timestamp, d) ==
  IF ~P.isRunning THEN P
  ELSE LET deltaTime ==
             ((timestamp - P.lastTimestamp) * P.simulationSpeed) \div 1000
           Requested(Q, id) ==
             [Q EXCEPT !.animationFrameId = id,
                       !.pendingFrames = Append(Q.pendingFrames, id)]
           Notified(Q) ==
             Logged(Logged(Q, "refreshCanvas"), "updateStatistics")
           Continued(Q) ==
             Logged(Requested(Q, requestAnimationFrame(Q.pendingFrames,
                                                       Q.animationFrameId)),
                    "requestAnimationFrame")
           Rest(Q) ==
             IF Q.raised > P.raised THEN Q ELSE Continued(Notified(Q))
       IN Rest(updateSimulation(
                 [P EXCEPT !.lastTimestamp = timestamp, !.ran = P.ran + 1,
                           !.deltaTimes = Append(P.deltaTimes, deltaTime),
                           !.steps = Append(P.steps, << >>)],
                 m, deltaTime, d))

\* The browser runs the callbacks queued for this frame, in the order they
\* were requested, all with the same timestamp.
RECURSIVE runCallbacks(_, _, _, _, _)
runCallbacks(P, m, n, timestamp, d) ==
  IF n = 0 THEN P
  ELSE runCallbacks(
         simulationLoop([P EXCEPT !.pendingFrames = Tail(P.pendingFrames)],
                        m, timestamp, d),
         m, n - 1, timestamp, d)

\* ------------------------------------------------- inputs of the model

\* Math.random() draws of one organism of createInitialPopulation.
InitialDraws ==
  { [trait |-> 0, count |-> 0, x |-> 0, y |-> 0, vx |-> 50, vy |-> 50,
     app |-> [type |-> 0, length |-> 0, position |-> 0, angle |-> 0]],
    [trait |-> 50, count |-> 50, x |-> 99, y |-> 99, vx |-> 0, vy |-> 50,
     app |-> [type |-> 99, length |-> 40, position |-> 50, angle |-> 50]] }

\* Math.random() draws placing one resource.
ResourceDraws == { [x |-> 99, y |-> 99], [x |-> 0, y |-> 0] }

\* Draws of one reproduceOrganism call: no mutation fires / every mutation
\* fires as a jump mutation.
ReproductionDraws ==
  { [mutation |-> [jump |-> 99, gene |-> 99, z |-> 0, flip |-> 99,
                   special |-> 99, add |-> 99, remove |-> 99, removeIndex |-> 0,
                   app |-> [type |-> 0, length |-> 0, position |-> 0, angle |-> 0]],
     angleX |-> 0, angleY |-> 0, offsetX |-> 50, offsetY |-> 50,
     jitterX |-> 50, jitterY |-> 50],
    [mutation |-> [jump |-> 0, gene |-> 0, z |-> 2, flip |-> 0,
                   special |-> 0, add |-> 0, remove |-> 0, removeIndex |-> 0,
                   app |-> [type |-> 99, length |-> 40, position |-> 50, angle |-> 50]],
     angleX |-> 50, angleY |-> 25, offsetX |-> 0, offsetY |-> 99,
     jitterX |-> 0, jitterY |-> 99] }

\* Draws of one tick: the regeneration trial and the new resource's place,
\* the random walk of the organisms, the reproductions of the selection pass.
TickDraws ==
  { [regen |-> g, x |-> 99, y |-> 99, turn |-> 50, speed |-> 0, repro |-> r] :
      g \in {0, 99}, r \in ReproductionDraws }

\* Speed multipliers given to startSimulation: 1.0 and 5.0.
Speeds == {10, 50}

\* Sizes given to setEnvironmentBoundaries (pixels); 0 stands for a missing
\* or zero measure.
Sizes == { [width |-> 0, height |-> 0], [width |-> 400, height |-> 300] }

\* Measures of the browser window at a resize (pixels): the width of the
\* simulation container and the inner height of the window.
Windows == { [clientWidth |-> 40, innerHeight |-> 1000],
             [clientWidth |-> 800, innerHeight |-> 500] }

\* Values the speed slider and the population-size input hand to their
\* callbacks (tenths; organisms).
SliderSpeeds == {0, 50}
PopulationSizes == {0, 2, 300}

\* Rates given to setMutationRate (hundredths).
Rates == {0, 50}

\* Properties given to createOrganism by a caller: an organism with energy
\* 200, one with energy 1, and a malformed organism whose phenotype field is
\* null.
GivenProperties ==
  { [state |-> [energy |-> 200 * EnergyUnit]],
    [state |-> [energy |-> EnergyUnit]],
    [phenotype |-> NullPhenotype] }

\* Draws of one mutateGenome call: the jump, add and remove trials, the trial
\* shared by the genes, the type flips and the specialization, the gaussian
\* draw in either direction, the index of the appendage removed.
MutationDraws ==
  { [jump |-> j, gene |-> g, z |-> z, flip |-> g, special |-> g, add |-> a,
     remove |-> r, removeIndex |-> i,
     app |-> [type |-> 99, length |-> 40, position |-> 50, angle |-> 50]] :
      j \in {0, 99}, g \in {0, 99}, z \in {-2, 2}, a \in {0, 99},
      r \in {0, 99}, i \in {0, 99} }

\* A genome whose gene values are all v, with n appendages.
UniformGenome(v, n) ==
  [bodySize |-> Gene(v, 3), bodyShape |-> Gene(v, 2), metabolism |-> Gene(v, 3),
   sensorRange |-> Gene(v, 2), speed |-> Gene(v, 4), turnRate |-> Gene(v, 3),
   appendages |-> [i \in 1..n |->
                     [type |-> "fin", length |-> Gene(v, 5),
                      position |-> Gene(v, 2), angle |-> Gene(v, 4)]]]

\* Genomes a line of descent starts from: gene values 0, 0.5 and 1, with no
\* appendage and with three.
StartGenomes == { UniformGenome(v, n) : v \in {0, 5, 10}, n \in {0, 3} }

\* Sequences of n draws from S.
DrawSeqs(S, n) == [1..n -> S]

\* The resource generateResources and updateResources place with the draws
\* x and y (hundredths) in the default boundaries.
Placed(x, y) ==
  [type |-> "food",
   position |-> [x |-> (x * 10 * DEFAULT_WIDTH) \div 100,
                 y |-> (y * 10 * DEFAULT_HEIGHT) \div 100],
   value |-> DEFAULT_VALUE * EnergyUnit]

\* Resources an environment holds when updateOrganisms is called: none; two
\* resources 8 px apart; two resources 160 px apart, in either order; one
\* resource 100 px from the middle of the environment, alone and with a
\* nearer one.
ResourceFields ==
  { << >>,
    << Placed(3, 4), Placed(4, 4) >>,
    << Placed(60, 50), Placed(40, 50) >>,
    << Placed(40, 50), Placed(60, 50) >>,
    << Placed(60, 60) >>,
    << Placed(60, 60), Placed(40, 50) >> }

\* Organisms a caller creates with createOrganism(properties): one whose
\* genes are all 0 (radius 5 px, it senses nothing and stays where it is)
\* 3 px to the right of the resource at (24, 24) and one 3 px below it; one
\* with the default genome (radius 17.5 px, sensor range 100 px) 4 px from
\* both resources of the pair, and one in the middle of the environment.
Still(x, y) ==
  [genome |-> UniformGenome(0, 0), state |-> [position |-> [x |-> x, y |-> y]]]

Mobile(x, y) == [state |-> [position |-> [x |-> x, y |-> y]]]

RECURSIVE createAll(_, _)
createAll(orgs, given) ==
  IF given = << >> THEN orgs
  ELSE createAll(Append(orgs, createOrganism(Head(given), generateId(Ids(orgs)))),
                 Tail(given))

Populations ==
  { createAll(<< >>, given) :
      given \in { << Still(270, 240) >>,
                  << Still(270, 240), Still(240, 270) >>,
                  << Still(240, 270), Mobile(280, 240) >>,
                  << Mobile(280, 240) >>,
                  << Mobile(4000, 3000) >> } }

\* deltaTime given to updateOrganisms (tenths of a second): 0 and 10 s.
DeltaTimes == {0, 100}

\* Regeneration rates (hundredths): the default 0.01, and 1.0.
RegenerationRates == {REGENERATION_RATE, 100}

\* deltaTime given to updateResources (tenths of a second): 0, 1 s, 100 s.
RegenerationTimes == {0, 10, 1000}

\* Draws of one updateResources call: the regeneration trial and the place.
RegenerationDraws ==
  { [regen |-> g, x |-> p.x, y |-> p.y] : g \in {0, 50, 99}, p \in ResourceDraws }

\* The two Math.random() draws of randomMovement.
WalkDraws == { [turn |-> 50, speed |-> 0], [turn |-> 99, speed |-> 99] }

\* ------------------------------------------------------------- initial

\* app.jsx useState: the coordinator's state before the first render.
InitialSimulationState ==
  [isInitialized |-> FALSE, isRunning |-> FALSE,
   simulationSpeed |-> DEFAULT_SPEED,
   populationSize |-> DEFAULT_POPULATION_SIZE,
   mutationRate |-> DEFAULT_MUTATION_RATE]

\* ui-manager controlCallbacks before initializeUI: every callback is null.
\* Once registered, the callbacks are the handlers of one render of App, and
\* simulationState is the state that render's handlers read.
NoCallbacks == [registered |-> FALSE, simulationState |-> InitialSimulationState]

\* The state after the modules are loaded.
Loaded ==
  /\ isRunning = FALSE
  /\ simulationSpeed = DEFAULT_SPEED
  /\ lastTimestamp = 0
  /\ animationFrameId = 0
  /\ environment =
       [resources |-> << >>,
        boundaries |-> [width |-> DEFAULT_WIDTH, height |-> DEFAULT_HEIGHT],
        parameters |-> [resourceRegenerationRate |-> REGENERATION_RATE,
                        maxResources |-> MAX_RESOURCES]]
  /\ organisms = << >>
  /\ mutationRate = DEFAULT_MUTATION_RATE
  /\ generationCount = 0
  /\ now = 0
  /\ pendingFrames = << >>
  /\ envSnap = Empty
  /\ orgSnap = NoSnapshot
  /\ simulationState = InitialSimulationState
  /\ controlCallbacks = NoCallbacks
  /\ last = [op |-> "load"]

Init ==
  /\ Loaded
  /\ genomes = [genome |-> generateDefaultGenome, mutatedGenome |-> NoSnapshot,
                calls |-> 0]

\* A line of descent starts from any of the start genomes.
InitMutation ==
  /\ Loaded
  /\ genomes \in { [genome |-> g, mutatedGenome |-> NoSnapshot, calls |-> 0] :
                    g \in StartGenomes }

\* The state in which a function is called on the environment env and the
\* population orgs, everything else as loaded.
Given(env, orgs) ==
  /\ isRunning = FALSE
  /\ simulationSpeed = DEFAULT_SPEED
  /\ lastTimestamp = 0
  /\ animationFrameId = 0
  /\ environment = env
  /\ organisms = orgs
  /\ mutationRate = DEFAULT_MUTATION_RATE
  /\ generationCount = 0
  /\ now = 0
  /\ pendingFrames = << >>
  /\ envSnap = Empty
  /\ orgSnap = NoSnapshot
  /\ simulationState = InitialSimulationState
  /\ controlCallbacks = NoCallbacks
  /\ genomes = [genome |-> generateDefaultGenome, mutatedGenome |-> NoSnapshot,
                calls |-> 0]
  /\ last = [op |-> "load"]

\* A population made by createOrganism calls in an environment that holds
\* resources, before updateOrganisms is called on it.
InitForaging ==
  \E field \in ResourceFields, population \in Populations :
    Given([resources |-> field,
           boundaries |-> [width |-> DEFAULT_WIDTH, height |-> DEFAULT_HEIGHT],
           parameters |-> [resourceRegenerationRate |-> REGENERATION_RATE,
                           maxResources |-> MAX_RESOURCES]],
          population)

\* An environment before updateResources is called on it: it holds up to
\* maxResources resources, and its regeneration rate is the default or the
\* 1.0 a holder of getEnvironment().parameters has set.
InitRegeneration ==
  \E n \in 0..MAX_RESOURCES, rate \in RegenerationRates :
    \E rd \in DrawSeqs(ResourceDraws, n) :
      Given([resources |-> [i \in 1..n |-> Placed(rd[i].x, rd[i].y)],
             boundaries |-> [width |-> DEFAULT_WIDTH, height |-> DEFAULT_HEIGHT],
             parameters |-> [resourceRegenerationRate |-> rate,
                             maxResources |-> MAX_RESOURCES]],
            << >>)

\* ------------------------------------------------------------ handlers

\* initializeSimulation(): rd places the resources, od creates the organisms.
\* Nothing in its try block raises, so it returns true.
initializeSimulation(P, rd, od) ==
  [P EXCEPT !.isRunning = FALSE,
            !.simulationSpeed = DEFAULT_SPEED,
            !.lastTimestamp = 0,
            !.environment = generateResources(P.environment, rd),
            !.organisms = createInitialPopulation(
                            P.organisms, DEFAULT_POPULATION_SIZE,
                            P.environment.boundaries, od)]

\* A faulty startSimulation that restarts whether running or not.
startSimulationRestarting(P, speed, timestamp) ==
  LET id == requestAnimationFrame(P.pendingFrames, P.animationFrameId)
  IN [P EXCEPT !.isRunning = TRUE,
               !.simulationSpeed = speed,
               !.lastTimestamp = timestamp,
               !.animationFrameId = id,
               !.pendingFrames = Append(P.pendingFrames, id)]

startSimulation(P, speed, timestamp) ==
  IF ~P.isRunning
  THEN LET id == requestAnimationFrame(P.pendingFrames, P.animationFrameId)
       IN [P EXCEPT !.isRunning = TRUE,
                    !.simulationSpeed = speed,
                    !.lastTimestamp = timestamp,
                    !.animationFrameId = id,
                    !.pendingFrames = Append(P.pendingFrames, id)]
  ELSE [P EXCEPT !.simulationSpeed = speed]

stopSimulation(P) ==
  IF P.isRunning
  THEN IF P.animationFrameId # 0
       THEN [P EXCEPT !.isRunning = FALSE,
                      !.pendingFrames =
                        cancelAnimationFrame(P.pendingFrames, P.animationFrameId),
                      !.animationFrameId = 0]
       ELSE [P EXCEPT !.isRunning = FALSE]
  ELSE P

\* A faulty resetSimulation that also starts the generation count again.
resetSimulationRecounting(P, rd, od) ==
  [initializeSimulation(stopSimulation(P), rd, od) EXCEPT !.generationCount = 0]

resetSimulation(P, rd, od) == initializeSimulation(stopSimulation(P), rd, od)

\* setEnvironmentBoundaries(width, height) on the environment env: a missing
\* or zero measure (0 here) is replaced by the default.
setEnvironmentBoundaries(env, width, height) ==
  [env EXCEPT !.boundaries =
     [width |-> IF width # 0 THEN width ELSE DEFAULT_WIDTH,
      height |-> IF height # 0 THEN height ELSE DEFAULT_HEIGHT]]

\* ------------------------------------------------------------- actions

\* The handler's result becomes the program state.
Commit(P) ==
  /\ isRunning' = P.isRunning
  /\ simulationSpeed' = P.simulationSpeed
  /\ lastTimestamp' = P.lastTimestamp
  /\ animationFrameId' = P.animationFrameId
  /\ environment' = P.environment
  /\ organisms' = P.organisms
  /\ generationCount' = P.generationCount
  /\ pendingFrames' = P.pendingFrames

InitializeOrganismSystem ==
  /\ organisms' = << >>
  /\ last' = [op |-> "initializeOrganismSystem"]
  /\ UNCHANGED <<outside, isRunning, simulationSpeed, lastTimestamp, animationFrameId,
                 environment, mutationRate, generationCount, now,
                 pendingFrames, envSnap, orgSnap>>

InitializeEvolutionSystem ==
  /\ mutationRate' = DEFAULT_MUTATION_RATE
  /\ generationCount' = 0
  /\ last' = [op |-> "initializeEvolutionSystem"]
  /\ UNCHANGED <<outside, isRunning, simulationSpeed, lastTimestamp, animationFrameId,
                 environment, organisms, now, pendingFrames, envSnap, orgSnap>>

InitializeSimulation ==
  /\ Len(organisms) + DEFAULT_POPULATION_SIZE <= MaxPop
  /\ \E rd \in DrawSeqs(ResourceDraws, environment.parameters.maxResources \div 2),
        od \in DrawSeqs(InitialDraws, DEFAULT_POPULATION_SIZE) :
       \E P \in {initializeSimulation(Program, rd, od)} : Commit(P)
  /\ envSnap' = Detach(envSnap, "resources", environment.resources)
  /\ last' = [op |-> "initializeSimulation", running |-> isRunning]
  /\ UNCHANGED <<outside, mutationRate, now, orgSnap>>

StartSimulation ==
  /\ isRunning \/ Len(pendingFrames) < MaxPending
  /\ \E speed \in Speeds :
       /\ \E P \in {startSimulation(Program, speed, now)} : Commit(P)
       /\ last' = [op |-> "startSimulation", running |-> isRunning,
                   speed |-> speed]
  /\ UNCHANGED <<outside, mutationRate, now, envSnap, orgSnap>>

StopSimulation ==
  /\ \E P \in {stopSimulation(Program)} : Commit(P)
  /\ last' = [op |-> "stopSimulation", running |-> isRunning]
  /\ UNCHANGED <<outside, mutationRate, now, envSnap, orgSnap>>

ResetSimulation ==
  /\ Len(organisms) + DEFAULT_POPULATION_SIZE <= MaxPop
  /\ \E rd \in DrawSeqs(ResourceDraws, environment.parameters.maxResources \div 2),
        od \in DrawSeqs(InitialDraws, DEFAULT_POPULATION_SIZE) :
       \E P \in {resetSimulation(Program, rd, od)} : Commit(P)
  /\ envSnap' = Detach(envSnap, "resources", environment.resources)
  /\ last' = [op |-> "resetSimulation", running |-> isRunning,
              population |-> Len(organisms)]
  /\ UNCHANGED <<outside, mutationRate, now, orgSnap>>

\* The browser delivers an animation frame: every callback queued runs.
AnimationFrame ==
  /\ pendingFrames # << >>
  /\ now < MaxFrames * FrameGap
  /\ now' = now + FrameGap
  /\ \E d \in TickDraws :
       \E P \in {runCallbacks(Program, mutationRate, Len(pendingFrames),
                                now + FrameGap, d)} :
          /\ Commit(P)
          /\ last' = [op |-> "frame", running |-> isRunning, ran |-> P.ran,
                      raised |-> P.raised, skipped |-> P.skipped,
                      deltaTimes |-> P.deltaTimes,
                      steps |-> P.steps, qualified |-> P.qualified,
                      reproduced |-> P.reproduced,
                      population |-> Len(organisms),
                      resources |-> Len(environment.resources)]
  /\ UNCHANGED <<outside, mutationRate, envSnap, orgSnap>>

SetEnvironmentBoundaries ==
  /\ \E size \in Sizes :
       environment' = setEnvironmentBoundaries(environment, size.width,
                                               size.height)
  /\ envSnap' = Detach(envSnap, "boundaries", environment.boundaries)
  /\ last' = [op |-> "setEnvironmentBoundaries"]
  /\ UNCHANGED <<outside, isRunning, simulationSpeed, lastTimestamp, animationFrameId,
                 organisms, mutationRate, generationCount, now, pendingFrames,
                 orgSnap>>

SetMutationRate ==
  /\ \E rate \in Rates :
       mutationRate' = Max(0, Min(MAX_MUTATION_RATE, rate))
  /\ last' = [op |-> "setMutationRate"]
  /\ UNCHANGED <<outside, isRunning, simulationSpeed, lastTimestamp, animationFrameId,
                 environment, organisms, generationCount, now, pendingFrames,
                 envSnap, orgSnap>>

CreateOrganism ==
  /\ Len(organisms) < MaxPop
  /\ \E properties \in GivenProperties :
       organisms' = Append(organisms,
                           createOrganism(properties, generateId(Ids(organisms))))
  /\ last' = [op |-> "createOrganism"]
  /\ UNCHANGED <<outside, isRunning, simulationSpeed, lastTimestamp, animationFrameId,
                 environment, mutationRate, generationCount, now, pendingFrames,
                 envSnap, orgSnap>>

\* reproduceOrganism(parentId) called with the id of an organism or with an id
\* no organism has.
ReproduceOrganism ==
  /\ generationCount < MaxGenerations
  /\ \E parentId \in Ids(organisms) \cup {generateId(Ids(organisms))},
        d \in ReproductionDraws :
       \E r \in {reproduceOrganism(organisms, generationCount, mutationRate,
                                   parentId, d)},
          at \in {Find(organisms, parentId)} :
          /\ organisms' = r.organisms
          /\ generationCount' = r.generationCount
          /\ last' = [op |-> "reproduceOrganism", parentId |-> parentId,
                      ret |-> r.ret, population |-> Len(organisms),
                      generation |-> generationCount,
                      energy |-> IF at = 0 THEN -1
                                 ELSE organisms[at].state.energy]
  /\ UNCHANGED <<outside, isRunning, simulationSpeed, lastTimestamp, animationFrameId,
                 environment, mutationRate, now, pendingFrames, envSnap, orgSnap>>

\* ---------------------------------------------------------- coordinator

\* app.jsx: the canvas measures computed from the container and the window.
CanvasSize(window) ==
  [width |-> window.clientWidth,
   height |-> Min((window.innerHeight * 6) \div 10,
                  (window.clientWidth * 75) \div 100)]

\* handleWindowResize: the canvas and the environment boundaries follow the
\* container.  setCanvasDimensions redraws from snapshots.
HandleWindowResize ==
  /\ \E window \in Windows :
       environment' = setEnvironmentBoundaries(environment,
                                               CanvasSize(window).width,
                                               CanvasSize(window).height)
  /\ envSnap' = Detach(envSnap, "boundaries", environment.boundaries)
  /\ last' = [op |-> "handleWindowResize"]
  /\ UNCHANGED <<outside, isRunning, simulationSpeed, lastTimestamp,
                 animationFrameId, organisms, mutationRate, generationCount,
                 now, pendingFrames, orgSnap>>

\* ------------------------------------------------------------ selection

\* calculateOrganismFitness called on an organism of getAllOrganisms(), with
\* the environment or without.
CalculateOrganismFitness ==
  /\ \E i \in 1..Len(organisms), hasEnvironment \in BOOLEAN :
       \E organism \in {View(getAllOrganisms(organisms), organisms)[i]} :
          \E r \in {calculateOrganismFitness(organism, environment,
                                              hasEnvironment)} :
             last' = [op |-> "calculateOrganismFitness",
                      malformed |-> organism.phenotype = NullPhenotype,
                      hasEnvironment |-> hasEnvironment,
                      threw |-> r.threw, appendageScore |-> r.appendageScore,
                      fitness |-> r.fitness]
  /\ UNCHANGED <<outside, isRunning, simulationSpeed, lastTimestamp,
                 animationFrameId, environment, organisms, mutationRate,
                 generationCount, now, pendingFrames, envSnap, orgSnap>>

\* applySelection(getAllOrganisms(), environment) called as the tick calls
\* it: processed is the number of organisms the pass went through.
ApplySelection ==
  /\ generationCount < MaxGenerations
  /\ \E d \in ReproductionDraws :
       \E snap \in {View(getAllOrganisms(organisms), organisms)} :
          \E r \in {applySelection(snap, organisms, generationCount,
                                    mutationRate, d)} :
             /\ organisms' = r.organisms
             /\ generationCount' = r.generationCount
             /\ last' = [op |-> "applySelection", threw |-> r.threw,
                         reproduced |-> r.reproduced,
                         population |-> Len(organisms),
                         malformed |-> \E i \in 1..Len(snap) :
                                         snap[i].phenotype = NullPhenotype]
  /\ UNCHANGED <<outside, isRunning, simulationSpeed, lastTimestamp,
                 animationFrameId, environment, mutationRate, now,
                 pendingFrames, envSnap, orgSnap>>

\* The handlers of App work on the engine (P) and on the React state (S).
\* seen is the simulationState of the render the handler was created in;
\* setSimulationState(prevState => ...) works on the current state.
handleStartSimulation(seen, X, timestamp) ==
  IF ~seen.isRunning
  THEN [P |-> startSimulation(X.P, seen.simulationSpeed, timestamp),
        S |-> [X.S EXCEPT !.isRunning = TRUE]]
  ELSE X

handleStopSimulation(seen, X) ==
  IF seen.isRunning
  THEN [P |-> stopSimulation(X.P), S |-> [X.S EXCEPT !.isRunning = FALSE]]
  ELSE X

handleResetSimulation(seen, X, rd, od) ==
  LET Reset(Y) == [P |-> resetSimulation(Y.P, rd, od), S |-> Y.S]
  IN Reset(handleStopSimulation(seen, X))

handleSpeedChange(seen, X, speed, timestamp) ==
  LET Changed(clampedSpeed) ==
        [P |-> IF seen.isRunning
               THEN startSimulation(X.P, clampedSpeed, timestamp) ELSE X.P,
         S |-> [X.S EXCEPT !.simulationSpeed = clampedSpeed]]
  IN Changed(Max(MIN_SPEED, Min(MAX_SPEED, speed)))

handlePopulationSizeChange(X, size) ==
  [X EXCEPT !.S.populationSize = Max(1, Min(200, size))]

\* The engine and the React state as the handlers take them.
App == [P |-> Program, S |-> simulationState]

\* The handler's result becomes the state of the engine and of App.
CommitApp(X) ==
  /\ Commit(X.P)
  /\ simulationState' = X.S

\* initializeApplication, run by the effect of the first render: the
\* systems are initialized, the boundaries follow the container, the
\* handlers of that render are registered with the UI, the simulation is
\* initialized and the state is marked initialized.
InitializeApplication ==
  /\ ~simulationState.isInitialized
  /\ \E window \in Windows,
        rd \in DrawSeqs(ResourceDraws, environment.parameters.maxResources \div 2),
        od \in DrawSeqs(InitialDraws, DEFAULT_POPULATION_SIZE) :
       \E P \in {initializeSimulation(
                     [Program EXCEPT
                        !.organisms = << >>,
                        !.generationCount = 0,
                        !.environment =
                          setEnvironmentBoundaries(environment,
                                                   CanvasSize(window).width,
                                                   CanvasSize(window).height)],
                     rd, od)} : Commit(P)
  /\ mutationRate' = DEFAULT_MUTATION_RATE
  /\ controlCallbacks' = [registered |-> TRUE,
                          simulationState |-> simulationState]
  /\ simulationState' = [simulationState EXCEPT !.isInitialized = TRUE]
  /\ envSnap' = Detach(Detach(envSnap, "boundaries", environment.boundaries),
                       "resources", environment.resources)
  /\ last' = [op |-> "initializeApplication"]
  /\ UNCHANGED <<genomes, now, orgSnap>>

\* The Start button: controlCallbacks.onStart().
OnStart ==
  /\ controlCallbacks.registered
  /\ isRunning \/ Len(pendingFrames) < MaxPending
  /\ \E X \in {handleStartSimulation(controlCallbacks.simulationState, App,
                                       now)} : CommitApp(X)
  /\ last' = [op |-> "onStart", running |-> isRunning]
  /\ UNCHANGED <<controlCallbacks, genomes, mutationRate, now, envSnap, orgSnap>>

\* The Stop button: controlCallbacks.onStop().
OnStop ==
  /\ controlCallbacks.registered
  /\ \E X \in {handleStopSimulation(controlCallbacks.simulationState, App)} :
       CommitApp(X)
  /\ last' = [op |-> "onStop", running |-> isRunning]
  /\ UNCHANGED <<controlCallbacks, genomes, mutationRate, now, envSnap, orgSnap>>

\* The Reset button: controlCallbacks.onReset().
OnReset ==
  /\ controlCallbacks.registered
  /\ Len(organisms) + DEFAULT_POPULATION_SIZE <= MaxPop
  /\ \E rd \in DrawSeqs(ResourceDraws, environment.parameters.maxResources \div 2),
        od \in DrawSeqs(InitialDraws, DEFAULT_POPULATION_SIZE) :
       \E X \in {handleResetSimulation(controlCallbacks.simulationState, App,
                                         rd, od)} : CommitApp(X)
  /\ envSnap' = Detach(envSnap, "resources", environment.resources)
  /\ last' = [op |-> "onReset", running |-> isRunning,
              population |-> Len(organisms)]
  /\ UNCHANGED <<controlCallbacks, genomes, mutationRate, now, orgSnap>>

\* The speed slider: controlCallbacks.onSpeedChange(value).
OnSpeedChange ==
  /\ controlCallbacks.registered
  /\ \E speed \in SliderSpeeds :
       \E X \in {handleSpeedChange(controlCallbacks.simulationState, App,
                                     speed, now)} : CommitApp(X)
  /\ last' = [op |-> "onSpeedChange", running |-> isRunning]
  /\ UNCHANGED <<controlCallbacks, genomes, mutationRate, now, envSnap, orgSnap>>

\* The population-size input: controlCallbacks.onPopulationSizeChange(value).
OnPopulationSizeChange ==
  /\ controlCallbacks.registered
  /\ \E size \in PopulationSizes :
       \E X \in {handlePopulationSizeChange(App, size)} : CommitApp(X)
  /\ last' = [op |-> "onPopulationSizeChange"]
  /\ UNCHANGED <<controlCallbacks, genomes, mutationRate, now, envSnap, orgSnap>>

\* ------------------------------------------------------ lines of descent

\* mutateGenome(genome) on the genome of the line's latest member, at the
\* global mutation rate.
MutateGenome ==
  /\ genomes.calls < MaxMutations
  /\ \E d \in MutationDraws :
       \E r \in {mutateGenomeCall(genomes.genome, mutationRate, d)} :
          /\ genomes' = [genome |-> r.input,
                         mutatedGenome |-> Merge([kind |-> "genome"], r.output),
                         calls |-> genomes.calls + 1]
          /\ last' = [op |-> "mutateGenome", rate |-> mutationRate, d |-> d]
  /\ UNCHANGED <<isRunning, simulationSpeed, lastTimestamp, animationFrameId,
                 environment, organisms, mutationRate, generationCount, now,
                 pendingFrames, envSnap, orgSnap, simulationState,
                 controlCallbacks>>

\* The offspring becomes a parent: its genome is the next one given to
\* mutateGenome (reproduceOrganism line 94).
NextGeneration ==
  /\ genomes.mutatedGenome.kind = "genome"
  /\ genomes' = [genome |-> View(genomes.mutatedGenome, genomes.genome),
                 mutatedGenome |-> NoSnapshot,
                 calls |-> genomes.calls]
  /\ last' = [op |-> "nextGeneration"]
  /\ UNCHANGED <<isRunning, simulationSpeed, lastTimestamp, animationFrameId,
                 environment, organisms, mutationRate, generationCount, now,
                 pendingFrames, envSnap, orgSnap, simulationState,
                 controlCallbacks>>

\* A later write into a genome: bodySize.value = 1, or 0 if it was 1.
Rewritten(genome) ==
  [genome EXCEPT !.bodySize.value = IF genome.bodySize.value = 10 THEN 0 ELSE 10]

\* The holder of the parent's genome ("genome") or of the genome returned
\* ("mutatedGenome") writes into it.
WriteGenome(which) ==
  /\ genomes.mutatedGenome.kind = "genome"
  /\ IF which = "genome" \/ genomes.mutatedGenome.alias
     THEN genomes' = [genomes EXCEPT !.genome = Rewritten(genomes.genome)]
     ELSE genomes' = [genomes EXCEPT
                        !.mutatedGenome.val = Rewritten(genomes.mutatedGenome.val)]
  /\ last' = [op |-> "writeGenome", which |-> which]
  /\ UNCHANGED <<isRunning, simulationSpeed, lastTimestamp, animationFrameId,
                 environment, organisms, mutationRate, generationCount, now,
                 pendingFrames, envSnap, orgSnap, simulationState,
                 controlCallbacks>>

\* ------------------------------------------------------------- foraging

\* updateOrganisms(deltaTime, environment) called on the population with the
\* environment of the simulation.
UpdateOrganisms ==
  /\ \A i \in 1..Len(organisms) : organisms[i].state.age < MaxUpdates * 100
  /\ \E deltaTime \in DeltaTimes, d \in WalkDraws :
       \E r \in {updateOrganisms(organisms, environment, deltaTime, d)} :
          /\ organisms' = r.organisms
          /\ environment' = r.environment
          /\ last' = [op |-> "updateOrganisms", deltaTime |-> deltaTime,
                      threw |-> r.threw]
  /\ UNCHANGED <<outside, isRunning, simulationSpeed, lastTimestamp,
                 animationFrameId, mutationRate, generationCount, now,
                 pendingFrames, envSnap, orgSnap>>

\* updateResources(deltaTime) on the environment, as a tick calls it.
UpdateResources ==
  /\ \E deltaTime \in RegenerationTimes, d \in RegenerationDraws :
       /\ environment' = updateResources(environment, deltaTime, d)
       /\ last' = [op |-> "updateResources", deltaTime |-> deltaTime, d |-> d,
                   resources |-> Len(environment.resources)]
  /\ UNCHANGED <<outside, isRunning, simulationSpeed, lastTimestamp,
                 animationFrameId, organisms, mutationRate, generationCount,
                 now, pendingFrames, envSnap, orgSnap>>

\* ------------------------------------------------------ a caller's copies

\* A caller (the renderer, the statistics, a test) keeps the value returned.
GetEnvironment ==
  /\ envSnap' = getEnvironment(environment)
  /\ last' = [op |-> "getEnvironment"]
  /\ UNCHANGED <<outside, isRunning, simulationSpeed, lastTimestamp, animationFrameId,
                 environment, organisms, mutationRate, generationCount, now,
                 pendingFrames, orgSnap>>

\* The caller's write into one nested object of the value it holds:
\* resources.pop(), boundaries.width = 100, parameters.maxResources = 0.
Written(field, object) ==
  CASE field = "resources" -> SubSeq(object, 1, Len(object) - 1)
    [] field = "boundaries" -> [object EXCEPT !.width = 100]
    [] field = "parameters" -> [object EXCEPT !.maxResources = 0]

MutateEnvironmentSnapshot(field) ==
  /\ field \in DOMAIN envSnap
  /\ LET object == View(envSnap[field], environment[field])
     IN /\ IF field = "resources" THEN object # << >>
           ELSE Written(field, object) # object
        /\ IF envSnap[field].alias
           THEN /\ environment' =
                     [environment EXCEPT ![field] = Written(field, object)]
                /\ envSnap' = envSnap
           ELSE /\ envSnap' =
                     [envSnap EXCEPT ![field].val = Written(field, object)]
                /\ environment' = environment
  /\ last' = [op |-> "mutateEnvironment", field |-> field]
  /\ UNCHANGED <<outside, isRunning, simulationSpeed, lastTimestamp, animationFrameId,
                 organisms, mutationRate, generationCount, now, pendingFrames,
                 orgSnap>>

GetAllOrganisms ==
  /\ orgSnap' = Merge([kind |-> "all"], getAllOrganisms(organisms))
  /\ last' = [op |-> "getAllOrganisms"]
  /\ UNCHANGED <<outside, isRunning, simulationSpeed, lastTimestamp, animationFrameId,
                 environment, organisms, mutationRate, generationCount, now,
                 pendingFrames, envSnap>>

GetOrganismById ==
  /\ \E organismId \in Ids(organisms) \cup {generateId(Ids(organisms))} :
       orgSnap' = Merge([kind |-> IF organismId \in Ids(organisms)
                                  THEN "one" ELSE "none"],
                        getOrganismById(organisms, organismId))
  /\ last' = [op |-> "getOrganismById"]
  /\ UNCHANGED <<outside, isRunning, simulationSpeed, lastTimestamp, animationFrameId,
                 environment, organisms, mutationRate, generationCount, now,
                 pendingFrames, envSnap>>

\* The caller's write into an organism it was handed: state.energy = 0 on the
\* organism itself or on the first one of the sequence.
Drained(kind, value) ==
  IF kind = "all"
  THEN [value EXCEPT ![1].state.energy = 0]
  ELSE [value EXCEPT !.state.energy = 0]

MutateOrganismSnapshot ==
  /\ orgSnap.kind # "none"
  /\ LET value == View(orgSnap, organisms)
     IN /\ value # << >>
        /\ Drained(orgSnap.kind, value) # value
        /\ IF orgSnap.alias
           THEN /\ organisms' = Drained(orgSnap.kind, value)
                /\ orgSnap' = orgSnap
           ELSE /\ orgSnap' =
                     [orgSnap EXCEPT !.val = Drained(orgSnap.kind, value)]
                /\ organisms' = organisms
  /\ last' = [op |-> "mutateOrganisms"]
  /\ UNCHANGED <<outside, isRunning, simulationSpeed, lastTimestamp, animationFrameId,
                 environment, mutationRate, generationCount, now,
                 pendingFrames, envSnap>>

\* ------------------------------------------------------ specifications

\* The application's set-up calls.
NextSetup ==
  \/ InitializeOrganismSystem
  \/ InitializeEvolutionSystem
  \/ SetMutationRate
  \/ SetEnvironmentBoundaries
  \/ InitializeSimulation

\* The scheduler: initialize, start, stop, reset, frames, boundary changes.
NextLoop ==
  \/ InitializeSimulation
  \/ StartSimulation
  \/ StopSimulation
  \/ ResetSimulation
  \/ AnimationFrame
  \/ SetEnvironmentBoundaries

\* The population: organisms created and reproduced by calls, and by the
\* ticks of a running simulation.
NextPopulation ==
  \/ CreateOrganism
  \/ ReproduceOrganism
  \/ StartSimulation
  \/ StopSimulation
  \/ AnimationFrame

\* A caller that keeps the value getEnvironment returns and writes to it.
NextEnvironmentCaller ==
  \/ InitializeSimulation
  \/ StartSimulation
  \/ AnimationFrame
  \/ GetEnvironment
  \/ \E field \in {"resources", "boundaries", "parameters"} :
       MutateEnvironmentSnapshot(field)

\* A caller that keeps the organisms the getters return and writes to them.
NextOrganismCaller ==
  \/ InitializeSimulation
  \/ StartSimulation
  \/ AnimationFrame
  \/ GetAllOrganisms
  \/ GetOrganismById
  \/ MutateOrganismSnapshot

\* A running simulation in a window that is resized.
NextResize ==
  \/ InitializeSimulation
  \/ StartSimulation
  \/ AnimationFrame
  \/ HandleWindowResize

\* Fitness and selection called on a population made by createOrganism.
NextSelection ==
  \/ InitializeSimulation
  \/ CreateOrganism
  \/ CalculateOrganismFitness
  \/ ApplySelection

\* The application: the coordinator is initialized, then the user works the
\* controls while frames are delivered.
NextCoordinator ==
  \/ InitializeApplication
  \/ OnStart
  \/ OnStop
  \/ OnReset
  \/ OnSpeedChange
  \/ OnPopulationSizeChange
  \/ AnimationFrame

\* Lines of descent: genomes mutated call after call at the rates set.
NextMutation ==
  \/ SetMutationRate
  \/ MutateGenome
  \/ NextGeneration
  \/ \E which \in {"genome", "mutatedGenome"} : WriteGenome(which)

\* updateOrganisms called on populations placed among resources.
NextForaging == UpdateOrganisms

\* updateResources called on environments more or less full.
NextRegeneration == UpdateResources

\* Generations: the evolution system is initialized, organisms are created
\* and reproduce by calls and in selection passes.
NextGenerations ==
  \/ InitializeEvolutionSystem
  \/ CreateOrganism
  \/ ReproduceOrganism
  \/ ApplySelection

\* Resets of a simulation whose mutation rate was set and whose organisms
\* have reproduced.
NextReset ==
  \/ SetMutationRate
  \/ CreateOrganism
  \/ ReproduceOrganism
  \/ StartSimulation
  \/ ResetSimulation

\* The ticks of a simulation started on organisms a caller has created.
NextTick ==
  \/ CreateOrganism
  \/ StartSimulation
  \/ AnimationFrame

Next ==
  \/ NextSetup
  \/ NextTick
  \/ NextReset
  \/ NextGenerations
  \/ NextRegeneration
  \/ NextForaging
  \/ NextMutation
  \/ NextResize
  \/ NextSelection
  \/ NextCoordinator
  \/ NextLoop
  \/ NextPopulation
  \/ NextEnvironmentCaller
  \/ NextOrganismCaller

Spec == Init /\ [][Next]_vars

SpecSetup == Init /\ [][NextSetup]_vars

SpecLoop == Init /\ [][NextLoop]_vars

SpecPopulation == Init /\ [][NextPopulation]_vars

SpecEnvironmentCaller == Init /\ [][NextEnvironmentCaller]_vars

SpecOrganismCaller == Init /\ [][NextOrganismCaller]_vars

SpecMutation == InitMutation /\ [][NextMutation]_vars

SpecResize == Init /\ [][NextResize]_vars

SpecSelection == Init /\ [][NextSelection]_vars

SpecCoordinator == Init /\ [][NextCoordinator]_vars

SpecForaging == InitForaging /\ [][NextForaging]_vars

SpecTick == Init /\ [][NextTick]_vars

SpecReset == Init /\ [][NextReset]_vars

SpecGenerations == Init /\ [][NextGenerations]_vars

SpecRegeneration == InitRegeneration /\ [][NextRegeneration]_vars

\* -------------------------------------------------------------- claims

Threshold == REPRODUCTION_ENERGY_THRESHOLD * EnergyUnit

\* C1 (SpecPopulation): when reproduceOrganism(parentId) succeeds for a
\* parent with energy E, the population afterwards holds the offspring and an
\* instance of the parent with energy E * (1 - ENERGY_TRANSFER_RATIO), so it
\* has grown by exactly one organism.
C1_ParentAndOffspringRemain ==
  (last.op = "reproduceOrganism" /\ last.ret # 0) =>
    /\ Len(organisms) = last.population + 1
    /\ \E i \in 1..Len(organisms) : organisms[i].id = last.ret
    /\ \E i \in 1..Len(organisms) :
         /\ organisms[i].id = last.parentId
         /\ organisms[i].state.energy
              = (last.energy * (10 - ENERGY_TRANSFER_RATIO)) \div 10

\* C2 (SpecLoop): after resetSimulation the scheduler is stopped, the
\* environment holds floor(maxResources / 2) resources, and the population is
\* exactly the newly created initial organisms, each of age 0 with the
\* default energy.
C2_ResetReinitializes ==
  last.op = "resetSimulation" =>
    /\ ~isRunning
    /\ Len(environment.resources) = environment.parameters.maxResources \div 2
    /\ Len(organisms) = DEFAULT_POPULATION_SIZE
    /\ \A i \in 1..Len(organisms) :
         /\ organisms[i].state.age = 0
         /\ organisms[i].state.energy = DEFAULT_ENERGY * EnergyUnit

\* C3 (SpecLoop): when stopSimulation has stopped the simulation, no frame
\* callback is left pending.
C3_StopLeavesNoPendingFrame ==
  (last.op = "stopSimulation" /\ last.running) => pendingFrames = << >>

\* C4 (SpecLoop): at most one simulationLoop callback is pending at any
\* time, and at most one tick runs in an animation frame.
C4_AtMostOnePendingFrame ==
  /\ Len(pendingFrames) <= 1
  /\ last.op = "frame" => last.ran <= 1

\* C5 (SpecPopulation): when the processing of an organism raises an error
\* in a tick, no organism of that tick is left out and the tick completes:
\* the running loop has requested its next frame.
C5_TickSurvivesError ==
  (last.op = "frame" /\ last.raised > 0) =>
    /\ last.skipped = 0
    /\ isRunning => pendingFrames # << >>

\* C6 (SpecEnvironmentCaller): a write of the caller into the value
\* getEnvironment returned (its resources, its boundaries, its parameters)
\* leaves the internal environment as it was.
C6_EnvironmentSnapshotIsolated ==
  [][last'.op = "mutateEnvironment" => environment' = environment]_vars

\* C7 (SpecOrganismCaller): a write of the caller into the value
\* getAllOrganisms or getOrganismById returned leaves the internal population
\* as it was, and no step of the simulation changes what a value already
\* returned shows.
C7_OrganismSnapshotIsolated ==
  [][/\ last'.op = "mutateOrganisms" => organisms' = organisms
     /\ last'.op \notin {"getAllOrganisms", "getOrganismById", "mutateOrganisms"}
          => View(orgSnap', organisms') = View(orgSnap, organisms)]_vars

\* The caller has written into a sequence getAllOrganisms returned, while the
\* simulation has ticked, and the population does not show the write.
C7_Witness ==
  /\ last.op = "mutateOrganisms"
  /\ orgSnap.kind = "all"
  /\ now > 0
  /\ organisms # << >>
  /\ orgSnap.val # organisms
  /\ organisms[1].state.energy > 0

\* C8 (SpecPopulation): reproduceOrganism called with an id no organism has
\* (energy -1 here), or for an organism whose energy is below
\* REPRODUCTION_ENERGY_THRESHOLD, returns null and leaves the population and
\* the generation counter unchanged.
C8_FailedReproductionChangesNothing ==
  [][(last'.op = "reproduceOrganism" /\ last'.energy < Threshold) =>
       /\ last'.ret = 0
       /\ organisms' = organisms
       /\ generationCount' = generationCount]_vars

\* reproduceOrganism has returned null for an organism of the population
\* whose energy is below the threshold.
C8_Witness ==
  /\ last.op = "reproduceOrganism"
  /\ last.ret = 0
  /\ last.energy >= 0
  /\ last.energy < Threshold
  /\ last.parentId \in Ids(organisms)

\* C9 (SpecPopulation): every organism of the population has energy >= 0,
\* after every tick and after every reproduction.
C9_EnergyNonNegative ==
  \A i \in 1..Len(organisms) : organisms[i].state.energy >= 0

\* A tick has run in which an organism used up its energy and was removed,
\* and another organism lives on.
C9_Witness ==
  /\ last.op = "frame"
  /\ last.ran > 0
  /\ last.raised = 0
  /\ Len(organisms) < last.population
  /\ organisms # << >>

\* C10 (SpecLoop): the environment never holds more than
\* parameters.maxResources resources.
C10_ResourcesCapped ==
  Len(environment.resources) <= environment.parameters.maxResources

\* A tick has run on an environment that was full, and left it full.
C10_Witness ==
  /\ last.op = "frame"
  /\ last.ran > 0
  /\ last.resources = environment.parameters.maxResources
  /\ Len(environment.resources) = environment.parameters.maxResources

\* The genome the last mutateGenome call returned, as its holder reads it.
Returned == View(genomes.mutatedGenome, genomes.genome)

\* Every scalar gene and every appendage sub-gene of g lies in [0,1].
GenesInRange(g) ==
  /\ \A k \in {"bodySize", "bodyShape", "metabolism", "sensorRange", "speed",
                "turnRate"} : g[k].value \in 0..10
  /\ \A i \in 1..Len(g.appendages) :
       \A k \in {"length", "position", "angle"} :
         g.appendages[i][k].value \in 0..10

\* C11 (SpecMutation): starting from a genome whose gene values lie in
\* [0,1], after any number of mutateGenome calls at any rate in
\* [0, MAX_MUTATION_RATE], every scalar gene value and every appendage
\* sub-gene value lies in [0,1].
C11_GeneValuesInRange ==
  /\ GenesInRange(genomes.genome)
  /\ genomes.mutatedGenome.kind = "genome" => GenesInRange(Returned)

\* A jump mutation with a specialization event has pushed genes of value 0.5
\* against the upper end of the range.
C11_Witness ==
  /\ last.op = "mutateGenome"
  /\ last.d.jump = 0 /\ last.d.gene = 0 /\ last.d.z > 0
  /\ last.rate = MAX_MUTATION_RATE
  /\ genomes.genome.bodySize.value = 5
  /\ Returned.bodySize.value = 10
  /\ \E i \in 1..Len(Returned.appendages) : Returned.appendages[i].length.value = 10

\* C12 (SpecMutation): starting from a genome with at most 3 appendages,
\* after any number of mutateGenome calls the genome returned has between 0
\* and 3 appendages.
C12_AppendageCountBounded ==
  /\ Len(genomes.genome.appendages) \in 0..3
  /\ genomes.mutatedGenome.kind = "genome" => Len(Returned.appendages) \in 0..3

\* A call on a genome with three appendages in which the add trial succeeded:
\* no appendage was added.
C12_Witness ==
  /\ last.op = "mutateGenome"
  /\ last.rate = MAX_MUTATION_RATE
  /\ last.d.add = 0 /\ last.d.remove = 99
  /\ Len(genomes.genome.appendages) = 3
  /\ Len(Returned.appendages) = 3

\* The organism lies inside the boundaries of env inset by its body radius
\* (tenths of a pixel).
Contained(o, env) ==
  LET radius == mapPhenotypeToSize(o.phenotype.bodySize)
  IN /\ radius <= o.state.position.x
     /\ o.state.position.x <= 10 * env.boundaries.width - radius
     /\ radius <= o.state.position.y
     /\ o.state.position.y <= 10 * env.boundaries.height - radius

\* C13 (SpecResize): after a tick, every organism the tick has moved (the
\* organisms that were in the population before it) lies inside the current
\* boundaries inset by its radius: radius <= x <= width - radius and
\* radius <= y <= height - radius.
C13_MovedOrganismsContained ==
  [][(last'.op = "frame" /\ last'.ran = 1 /\ last'.raised = 0) =>
       \A i \in 1..Len(organisms') :
         organisms'[i].id \in Ids(organisms)
           => Contained(organisms'[i], environment')]_vars

\* C14 (SpecMutation): a mutateGenome call leaves the genome it was given
\* unchanged, and a later write into either genome does not show in the
\* other.
C14_MutatedGenomeIndependent ==
  [][/\ last'.op = "mutateGenome" => genomes'.genome = genomes.genome
     /\ (last'.op = "writeGenome" /\ last'.which = "genome")
          => View(genomes'.mutatedGenome, genomes'.genome) = Returned
     /\ (last'.op = "writeGenome" /\ last'.which = "mutatedGenome")
          => genomes'.genome = genomes.genome]_vars

\* The genome returned differs from the one given, and its holder has
\* written into it: the parent's genome does not show the write.
C14_Witness ==
  /\ last.op = "writeGenome"
  /\ last.which = "mutatedGenome"
  /\ Returned.bodySize.value = 10
  /\ genomes.genome.bodySize.value = 5
  /\ Len(Returned.appendages) # Len(genomes.genome.appendages)

\* C15 (SpecPopulation): when reproduceOrganism succeeds for a parent with
\* energy E, the id returned is the id of a new organism of the population
\* that has energy E * ENERGY_TRANSFER_RATIO, age 0 and a genome mutateGenome
\* produces from the parent's genome.
C15_OffspringAdded ==
  [][(last'.op = "reproduceOrganism" /\ last'.ret # 0) =>
       \E i \in 1..Len(organisms'), at \in {Find(organisms, last'.parentId)} :
         /\ organisms'[i].id = last'.ret
         /\ organisms'[i].id \notin Ids(organisms)
         /\ organisms'[i].state.energy
              = (organisms[at].state.energy * ENERGY_TRANSFER_RATIO) \div 10
         /\ organisms'[i].state.age = 0
         /\ \E d \in ReproductionDraws :
              organisms'[i].genome
                = mutateGenome(organisms[at].genome, mutationRate, d.mutation)]_vars

\* A parent with energy 200 has reproduced: its offspring has energy 160,
\* age 0 and a genome that differs from the default genome of the parent.
C15_Witness ==
  /\ last.op = "reproduceOrganism"
  /\ last.ret # 0
  /\ last.energy = 200 * EnergyUnit
  /\ \E i \in 1..Len(organisms) :
       /\ organisms[i].id = last.ret
       /\ organisms[i].state.energy = 160 * EnergyUnit
       /\ organisms[i].state.age = 0
       /\ organisms[i].genome # generateDefaultGenome

\* C16 (SpecCoordinator): the population size configured through the
\* population-size control is applied on reset: after the reset the
\* population holds exactly that many organisms.
C16_PopulationSizeAppliedOnReset ==
  last.op = "onReset" => Len(organisms) = simulationState.populationSize

\* C17 (SpecLoop): startSimulation(speed) on a running simulation replaces
\* the speed and nothing else: no frame callback is requested, lastTimestamp,
\* the population and the environment stay as they are; the next tick
\* computes deltaTime from the new speed.
C17_SpeedChangeWhileRunning ==
  [][/\ (last'.op = "startSimulation" /\ isRunning) =>
          /\ simulationSpeed' = last'.speed
          /\ isRunning'
          /\ pendingFrames' = pendingFrames
          /\ animationFrameId' = animationFrameId
          /\ lastTimestamp' = lastTimestamp
          /\ organisms' = organisms
          /\ environment' = environment
     /\ (last.op = "startSimulation" /\ last.running
           /\ last'.op = "frame" /\ last'.ran > 0) =>
          last'.deltaTimes[1] = ((now' - lastTimestamp) * last.speed) \div 1000]_vars

\* A simulation started at speed 1.0 has ticked, was given speed 5.0 while
\* running, and has ticked again: that tick covered 5.0 times the frame gap.
C17_Witness ==
  /\ last.op = "frame"
  /\ now = 2 * FrameGap
  /\ isRunning
  /\ simulationSpeed = 50
  /\ last.ran = 1
  /\ last.deltaTimes = << (FrameGap * 50) \div 1000 >>
  /\ \E i \in 1..Len(organisms) : organisms[i].state.age
                                     = (FrameGap * (10 + 50)) \div 1000

\* C18 (SpecMutation): with the global mutation rate at 0, mutateGenome
\* returns a genome identical to the one it was given, whatever the draws.
C18_ZeroRateIsIdentity ==
  [][(last'.op = "mutateGenome" /\ last'.rate = 0)
       => View(genomes'.mutatedGenome, genomes'.genome) = genomes.genome]_vars

\* At rate 0 a call in which every draw was the smallest Math.random() can
\* return has returned its three-appendage input unchanged.
C18_Witness ==
  /\ last.op = "mutateGenome"
  /\ last.rate = 0
  /\ last.d.jump = 0 /\ last.d.gene = 0 /\ last.d.add = 0 /\ last.d.remove = 0
  /\ Len(genomes.genome.appendages) = 3
  /\ Returned = genomes.genome

\* C19 (SpecSelection): calculateOrganismFitness on a malformed organism (its
\* phenotype is missing) does not throw and scores the appendage component
\* with the neutral 0.5, and a selection pass over a population holding such
\* an organism runs to its end.
C19_FitnessToleratesMalformed ==
  /\ (last.op = "calculateOrganismFitness" /\ last.malformed) =>
       /\ ~last.threw
       /\ last.appendageScore = 500
  /\ (last.op = "applySelection" /\ last.malformed) => ~last.threw

\* C20 (SpecCoordinator): the onStop callback registered with the UI,
\* invoked while the scheduler is running, leaves the scheduler stopped.
C20_StopCallbackStops ==
  (last.op = "onStop" /\ last.running) => ~isRunning

\* C21 (SpecPopulation): in every tick, the organisms that reproduce are
\* exactly those that have energy >= REPRODUCTION_ENERGY_THRESHOLD when the
\* organism update has ended, each once: the tick counts as many
\* reproductions as there are such organisms, and no offspring of the tick
\* adds one.
C21_QualifiedReproduceOnce ==
  [][(last'.op = "frame" /\ last'.ran > 0) =>
       generationCount' = generationCount + last'.qualified]_vars

\* C22 (SpecPopulation): an organism whose energy is <= 0 at its death check
\* is marked and removed once the last organism has been updated, so after
\* every tick no organism with energy <= 0 is in the population.
C22_NoDeadOrganismAfterTick ==
  (last.op = "frame" /\ last.ran > 0) =>
    \A i \in 1..Len(organisms) : organisms[i].state.energy > 0

\* The resource lies closer to the organism than its body radius.
Reaches(o, resource) ==
  Dist2(o.state.position, resource.position)
    < mapPhenotypeToSize(o.phenotype.bodySize)
        * mapPhenotypeToSize(o.phenotype.bodySize)

\* The sum of the values of the resources with an index in J.
RECURSIVE SumValues(_, _)
SumValues(resources, J) ==
  IF J = {} THEN 0
  ELSE LET j == CHOOSE k \in J : TRUE
       IN resources[j].value + SumValues(resources, J \ {j})

\* C23 (SpecForaging): in an update of the population, the resources left in
\* the environment are exactly those no organism has come closer to than its
\* body radius, and every organism has gained the full value of every
\* resource it was the first organism, in the order of the population, to
\* reach; no resource is counted for two organisms.
C23_ForagingConsumesReached ==
  [][(last'.op = "updateOrganisms" /\ Len(organisms') = Len(organisms)) =>
       LET resources == environment.resources
           Unreached(resource) ==
             \A i \in 1..Len(organisms') : ~Reaches(organisms'[i], resource)
           First(j) ==
             CHOOSE i \in 1..Len(organisms') :
               /\ Reaches(organisms'[i], resources[j])
               /\ \A k \in 1..(i - 1) : ~Reaches(organisms'[k], resources[j])
           Mine(i) == {j \in 1..Len(resources) :
                         ~Unreached(resources[j]) /\ First(j) = i}
       IN /\ environment'.resources = SelectSeq(resources, Unreached)
          /\ \A i \in 1..Len(organisms') :
               organisms'[i].state.energy
                 = decreaseEnergy(organisms[i], last'.deltaTime).state.energy
                   + SumValues(resources, Mine(i))]_vars

\* Two organisms of radius 5 px were each 3 px from the same resource: the
\* first of the population has gained its value, the second has not, and
\* the resource exactly 5 px from the first is still there.
C23_Witness ==
  /\ last.op = "updateOrganisms"
  /\ Len(organisms) = 2
  /\ organisms[1].state.position = [x |-> 270, y |-> 240]
  /\ organisms[2].state.position = [x |-> 240, y |-> 270]
  /\ mapPhenotypeToSize(organisms[1].phenotype.bodySize) = 50
  /\ mapPhenotypeToSize(organisms[2].phenotype.bodySize) = 50
  /\ organisms[1].state.energy = (DEFAULT_ENERGY + DEFAULT_VALUE) * EnergyUnit
  /\ organisms[2].state.energy = DEFAULT_ENERGY * EnergyUnit
  /\ environment.resources = << Placed(4, 4) >>

\* The steps of simulationLoop and updateSimulation, in the order of their
\* statements.
TickOrder ==
  << "updateResources", "updateOrganisms", "applySelection", "refreshCanvas",
     "updateStatistics", "requestAnimationFrame" >>

\* C24 (SpecTick): the steps of every tick run in the order resource
\* regeneration, organism update, selection, render, statistics, and the
\* next frame is requested after all of them: what a tick has run is a
\* beginning of that order, and all of it when nothing was raised.
C24_TickStepsInOrder ==
  last.op = "frame" =>
    \A t \in 1..Len(last.steps) :
      /\ Len(last.steps[t]) <= Len(TickOrder)
      /\ last.steps[t] = SubSeq(TickOrder, 1, Len(last.steps[t]))
      /\ last.raised = 0 => last.steps[t] = TickOrder

\* A tick has run all its steps, its selection pass had an organism to
\* reproduce, and the next frame is queued.
C24_Witness ==
  /\ last.op = "frame"
  /\ last.steps = << TickOrder >>
  /\ last.qualified > 0
  /\ generationCount > 0
  /\ pendingFrames # << >>

\* C25 (SpecRegeneration): one call of updateResources leaves the resources
\* it found in place and adds at most one, whatever the deficit: exactly one
\* to an empty environment at regeneration rate 1.0 and deltaTime 1, none
\* when the environment already holds maxResources resources.
C25_AtMostOneResourceAdded ==
  [][last'.op = "updateResources" =>
       LET before == environment.resources
           after == environment'.resources
       IN /\ Len(after) \in {Len(before), Len(before) + 1}
          /\ SubSeq(after, 1, Len(before)) = before
          /\ (/\ before = << >>
              /\ environment.parameters.resourceRegenerationRate = 100
              /\ last'.deltaTime = 10) => Len(after) = 1
          /\ Len(before) >= environment.parameters.maxResources
               => after = before]_vars

\* At rate 1.0 and deltaTime 1, with the largest draw Math.random() returns,
\* a call on an empty environment with room for more than one resource has
\* added one resource.
C25_Witness ==
  /\ last.op = "updateResources"
  /\ last.resources = 0
  /\ last.deltaTime = 10
  /\ last.d.regen = 99
  /\ environment.parameters.resourceRegenerationRate = 100
  /\ environment.parameters.maxResources > 1
  /\ Len(environment.resources) = 1

\* C26 (SpecGenerations): the generation counter grows by one with every
\* reproduceOrganism call that returns an id, whether a caller or a
\* selection pass makes it, and no other step changes it but
\* initializeEvolutionSystem, which sets it to 0: it never decreases
\* otherwise and is the number of successful reproductions since then.
C26_GenerationCountsReproductions ==
  [][/\ last'.op = "initializeEvolutionSystem" => generationCount' = 0
     /\ last'.op = "reproduceOrganism" =>
          generationCount'
            = generationCount + (IF last'.ret # 0 THEN 1 ELSE 0)
     /\ last'.op \in {"applySelection", "frame"} =>
          generationCount' = generationCount + last'.reproduced
     /\ last'.op \notin {"initializeEvolutionSystem", "reproduceOrganism",
                         "applySelection", "frame"}
          => generationCount' = generationCount]_vars

\* After one reproduction counted before, a reproduceOrganism call has
\* succeeded and the counter stands at 2.
C26_Witness ==
  /\ last.op = "reproduceOrganism"
  /\ last.ret # 0
  /\ last.generation = 1
  /\ generationCount = 2

\* C27 (SpecForaging): an organism that can move steers toward a resource,
\* at its full speed, exactly when some resource lies at a distance strictly
\* less than sensorRange * 200 from it, and then toward the nearest such
\* resource, the first in the order of the resources on a tie; otherwise it
\* moves at random, at less than its full speed.  The heading shows the
\* target when the turn rate allows the whole turn and no boundary was hit.
C27_SteersTowardNearestInRange ==
  [][(last'.op = "updateOrganisms" /\ Len(organisms') = Len(organisms)) =>
       \A i \in 1..Len(organisms) :
         (i = 1 \/ environment'.resources = environment.resources) =>
           LET o == organisms[i]
               n == organisms'[i]
               resources == environment.resources
               deltaTime == last'.deltaTime
               sensorRange == o.phenotype.sensorRange * 200
               Away(j) == Dist2(o.state.position, resources[j].position)
               Near == {j \in 1..Len(resources) :
                          Away(j) < sensorRange * sensorRange}
               Nearest == CHOOSE j \in Near :
                            \A k \in Near :
                              Away(j) < Away(k) \/ (Away(j) = Away(k) /\ j <= k)
               maxSpeed == o.phenotype.speed * 5
               speed2 == n.state.velocity.x * n.state.velocity.x
                         + n.state.velocity.y * n.state.velocity.y
               Free == n.state.position
                         = [x |-> o.state.position.x
                                  + n.state.velocity.x * deltaTime,
                            y |-> o.state.position.y
                                  + n.state.velocity.y * deltaTime]
               FullTurn ==
                 QuarterTurns(o.phenotype.turnRate * 2 * deltaTime * 100) >= 2
           IN maxSpeed > 0 =>
                /\ Near = {} => speed2 < maxSpeed * maxSpeed
                /\ Near # {} =>
                     /\ speed2 = maxSpeed * maxSpeed
                     /\ (Free /\ FullTurn) =>
                          Heading(n.state.velocity)
                            = Heading([x |-> resources[Nearest].position.x
                                             - o.state.position.x,
                                       y |-> resources[Nearest].position.y
                                             - o.state.position.y])]_vars

\* An organism in the middle of the environment, with one resource 80 px to
\* its left and then one 80 px to its right, has moved for 10 s at its full
\* speed to the left, toward the first of the two.
C27_Witness ==
  /\ last.op = "updateOrganisms"
  /\ last.deltaTime = 100
  /\ environment.resources = << Placed(40, 50), Placed(60, 50) >>
  /\ Len(organisms) = 1
  /\ organisms[1].state.age = 100
  /\ organisms[1].state.velocity = [x |-> -(organisms[1].phenotype.speed * 5),
                                    y |-> 0]
  /\ organisms[1].state.position = [x |-> 4000 - organisms[1].phenotype.speed
                                                  * 5 * 100,
                                    y |-> 3000]

\* C28 (SpecPopulation): whenever the scheduler is running, between two
\* handlers, exactly one frame callback is pending, also after a tick in
\* which an error was raised: a running simulation never stalls.
C28_RunningHasOnePendingFrame ==
  isRunning => Len(pendingFrames) = 1

\* C29 (SpecPopulation): at the end of every tick that has notified the
\* renderer and the statistics, every organism of the population, the
\* offspring of the tick included, lies inside the environment boundaries
\* inset by its body radius.
C29_PopulationContainedAfterTick ==
  (/\ last.op = "frame"
   /\ last.steps # << >>
   /\ \A t \in 1..Len(last.steps) : last.steps[t] = TickOrder) =>
    \A i \in 1..Len(organisms) : Contained(organisms[i], environment)

\* C30 (SpecReset): resetSimulation leaves the generation counter and the
\* global mutation rate as they were before the reset.
C30_ResetKeepsEvolutionState ==
  [][last'.op = "resetSimulation" =>
       /\ generationCount' = generationCount
       /\ mutationRate' = mutationRate]_vars

\* A running simulation with a mutation rate other than the default, in
\* which a generation was counted, has been reset.
C30_Witness ==
  /\ last.op = "resetSimulation"
  /\ last.running
  /\ generationCount > 0
  /\ mutationRate # DEFAULT_MUTATION_RATE

====
